---- MODULE Spec2Model ----
(***************************************************************************)
(* Retrieval-and-linking core of rav-whatsapp-qa.                          *)
(*                                                                         *)
(*  - Q&A linker   : enhanced_matcher.js  (enhancedMatchAnswerToQuestion)  *)
(*  - guardrails   : guardrails.js (filterQuery, filterResponse,           *)
(*                   shouldReject, applyGuardrails)                        *)
(*  - search       : the local RAG search (loadVectors, searchLocal,       *)
(*                   secureRAGSearch)                                      *)
(*  - transcribe   : transcribe_openai.js (transcribe)                     *)
(*  - ingestion    : message_processor.js (processMessage,                 *)
(*                   autoLinkAnswer), called from bot.js                   *)
(*                                                                         *)
(* Scores are JavaScript doubles in the source.  Here a score is an        *)
(* integer number of 1/SCALE units; every constant of the source is an     *)
(* exact multiple of the unit, so sums and the 0.7/0.3 blend are exact.    *)
(* Timestamps are whole hours in the linker and whole minutes in the       *)
(* search (the source keeps seconds and milliseconds).                     *)
(***************************************************************************)
EXTENDS Integers, Sequences, FiniteSets, TLC

\* ------------------------------------------------------------------------
\* Bounds of the model
\* ------------------------------------------------------------------------
MaxQuestions == 2
MaxRuns == 2
MaxDeletes == 1

\* ------------------------------------------------------------------------
\* Fixed-point representation of scores
\* ------------------------------------------------------------------------
SCALE == 60000

\* x/100 of one unit (e.g. Pct(55) is 0.55)
Pct(x) == (x * SCALE) \div 100

\* ------------------------------------------------------------------------
\* enhanced_matcher.js : parameters
\* ------------------------------------------------------------------------
WINDOW_H == 72
SAME_AUTHOR_BONUS == Pct(15)
\* mutant: a reply link that is given less than full confidence
REPLY_HARDLINK_Lowered == Pct(95)
REPLY_HARDLINK == SCALE
\* 0.015 per hour
TIME_DECAY_PER_H == (15 * SCALE) \div 1000
LANG_BONUS_MATCH == Pct(8)
\* weights are kept in tenths: 0.8 and 0.2
SIM_WEIGHT == 8
CONTEXT_WEIGHT == 2
TEXT_WEIGHT == 3
\* mutant: the acceptance threshold set lower than 0.55
THRESHOLD_ACCEPT_Lowered == Pct(50)
THRESHOLD_ACCEPT == Pct(55)
VERIFY_WITH_GPT == TRUE
VERIFY_MIN_SCORE == Pct(30)
\* the score verifyWithAI substitutes for a missing score or a failed call
VERIFY_DEFAULT == Pct(50)

\* ------------------------------------------------------------------------
\* Null values of the store (SQL NULL / JavaScript null)
\* ------------------------------------------------------------------------
NoText == "NULL"
NoId == 0
NoConf == -1
NoMethod == "NULL"
NoEmbed == << >>
NoVec == << >>

\* ------------------------------------------------------------------------
\* Texts.  A text is named by an identifier; the tables below give what the
\* source's string operations extract from it: its word tokens of more
\* than two characters (split(/\W+/).filter(w => w.length > 2)), its
\* character length and the script of its characters.
\* ------------------------------------------------------------------------
QuestionTexts == {"qBougie", "qLait", "qIvrit"}
AnswerTexts == {"aBougie", "aIvrit"}
Texts == QuestionTexts \cup AnswerTexts

Words(t) ==
    CASE t = "qBougie" -> {"allumer", "bougie", "chabbat"}
      [] t = "qLait"   -> {"lait", "viande", "attente"}
      [] t = "qIvrit"  -> {"shabat_he", "nerot_he"}
      [] t = "aBougie" -> {"bougie", "chabbat", "avant", "coucher"}
      [] t = "aIvrit"  -> {"shabat_he", "mutar_he"}
      [] OTHER         -> {}

CharLen(t) ==
    CASE t = "qBougie" -> 42
      [] t = "qLait"   -> 120
      [] t = "qIvrit"  -> 30
      [] t = "aBougie" -> 180
      [] t = "aIvrit"  -> 40
      [] OTHER         -> 0

HebrewWords == {"shabat_he", "nerot_he", "mutar_he"}
ArabicWords == {}

\* the keyword list of analyzeContext that the vocabulary can contain
halakhicKeywords == {"chabbat", "cacher", "attente", "lavage", "mikve"}

\* detectLanguage(text)
detectLanguage(t) ==
    IF t = NoText THEN "fr"
    ELSE IF Words(t) \cap HebrewWords # {} THEN "he"
    ELSE IF Words(t) \cap ArabicWords # {} THEN "ar"
    ELSE "fr"

\* textSimilarity(text1, text2): |intersection| / |union| of the word sets
textSimilarity(t1, t2) ==
    IF t1 = NoText \/ t2 = NoText THEN 0
    ELSE LET inter == Words(t1) \cap Words(t2)
             union == Words(t1) \cup Words(t2)
         IN  IF Cardinality(union) > 0
             THEN (Cardinality(inter) * SCALE) \div Cardinality(union)
             ELSE 0

Min(a, b) == IF a < b THEN a ELSE b
Max(a, b) == IF a > b THEN a ELSE b

\* analyzeContext(question, answer, timeGap)
analyzeContext(q, a, timeGap) ==
    LET shared == Cardinality(halakhicKeywords \cap Words(q) \cap Words(a))
        kw     == shared * Pct(10)
        short  == IF CharLen(q) < 100 /\ CharLen(a) > 50 THEN Pct(5) ELSE 0
        far    == IF timeGap > 24 THEN Pct(10) ELSE 0
    IN  Min(Pct(30), kw + short - far)

\* ------------------------------------------------------------------------
\* Embedding vectors.  All vectors of the model have a square norm, so the
\* integer square root below is exact.
\* ------------------------------------------------------------------------
Vectors == { <<3, 4>>, <<5, 0>>, <<-4, 3>> }

ISqrt(n) == CHOOSE r \in 0..n : r * r <= n /\ (r + 1) * (r + 1) > n

RECURSIVE Dot(_, _, _)
Dot(a, b, i) == IF i = 0 THEN 0 ELSE a[i] * b[i] + Dot(a, b, i - 1)

\* cosineSimilarity(a, b) of enhanced_matcher.js
cosineSimilarity(a, b) ==
    IF a = NoVec \/ b = NoVec \/ Len(a) # Len(b) THEN 0
    ELSE LET dotProduct == Dot(a, b, Len(a))
             normA == Dot(a, a, Len(a))
             normB == Dot(b, b, Len(b))
         IN  IF normA = 0 \/ normB = 0 THEN 0
             ELSE (dotProduct * SCALE) \div (ISqrt(normA) * ISqrt(normB))

\* JSON.stringify / JSON.parse of an embedding: the store keeps the decimal
\* text of every component.
Digits == [n \in -5..5 |->
    CASE n = -5 -> "-5" [] n = -4 -> "-4" [] n = -3 -> "-3" [] n = -2 -> "-2"
      [] n = -1 -> "-1" [] n = 0 -> "0" [] n = 1 -> "1" [] n = 2 -> "2"
      [] n = 3 -> "3" [] n = 4 -> "4" [] n = 5 -> "5"]

JSONstringify(v) == [i \in 1..Len(v) |-> Digits[v[i]]]

\* mutant: a parse that loses the last component of the stored text
JSONparse_Truncated(s) ==
    [i \in 1..(Len(s) - 1) |-> CHOOSE n \in -5..5 : Digits[n] = s[i]]

JSONparse(s) == [i \in 1..Len(s) |-> CHOOSE n \in -5..5 : Digits[n] = s[i]]


\* ------------------------------------------------------------------------
\* The store: table messages.  Rows 1..MaxQuestions are text messages
\* (questions), row AnswerId is the voice answer whose link is computed.
\* ------------------------------------------------------------------------
QuestionIds == 1..MaxQuestions
AnswerId == MaxQuestions + 1
\* a WhatsApp message that was quoted but is not in the store
ExternalId == MaxQuestions + 2
MsgIds == 1..AnswerId

AnswerTs == 100
NotDeleted == -1

\* what a text message can look like when the answer arrives:
\* text, hours before the answer, sender, group
QuestionCatalog ==
    << [text |-> "qBougie", gap |-> 1,  sender |-> "rav",   group |-> "G1"],
       [text |-> "qBougie", gap |-> 30, sender |-> "david", group |-> "G1"],
       [text |-> "qIvrit",  gap |-> 2,  sender |-> "david", group |-> "G1"],
       [text |-> "qLait",   gap |-> 80, sender |-> "david", group |-> "G1"],
       [text |-> "qBougie", gap |-> 1,  sender |-> "david", group |-> "G2"],
       [text |-> "qLait",   gap |-> -1, sender |-> "david", group |-> "G1"],
       [text |-> "qBougie", gap |-> 50, sender |-> "david", group |-> "G1"],
       [text |-> "qBougie", gap |-> 60, sender |-> "david", group |-> "G1"] >>

\* DB.upsert of a text message (processMessage, branch 1)
QuestionRow(c) ==
    [ group_name |-> c.group, question_text |-> c.text, ts |-> AnswerTs - c.gap,
      sender_name |-> c.sender, transcript_raw |-> NoText,
      replied_to_message_id |-> NoId, deleted_at |-> NotDeleted,
      q_embed |-> NoEmbed, a_embed |-> NoEmbed,
      link_question_id |-> NoId, link_confidence |-> NoConf,
      link_method |-> NoMethod ]

\* DB.upsert of a voice message followed by DB.updateTranscript
\* (processMessage, branch 2, up to the call of the linker)
AnswerRow(text, hint, repliedTo) ==
    [ group_name |-> "G1", question_text |-> hint, ts |-> AnswerTs,
      sender_name |-> "rav", transcript_raw |-> text,
      replied_to_message_id |-> repliedTo, deleted_at |-> NotDeleted,
      q_embed |-> NoEmbed, a_embed |-> NoEmbed,
      link_question_id |-> NoId, link_confidence |-> NoConf,
      link_method |-> NoMethod ]

\* ------------------------------------------------------------------------
\* Providers.  embed(text) and verify(question, answer) are fixed functions
\* of their inputs that the model discovers call by call: the first call on
\* an input chooses the response, later calls repeat it.
\* ------------------------------------------------------------------------
Unasked == "unasked"
EmbedFail == "fail"
EmbedOutcomes == {"fail", "v34", "v50"}
VectorOf(o) == CASE o = "v34" -> <<3, 4>> [] o = "v50" -> <<5, 0>> [] OTHER -> NoVec

\* the verifier: the score field of the JSON it returned, or a failure
\* (network error, timeout, unparsable content)
VerifyFail == -SCALE
VerifyOutcomes == {VerifyFail, 0, Pct(20), Pct(150)}
VerifyUnasked == -2 * SCALE

VARIABLES
    messages,      \* table messages: MsgIds -> row
    run,           \* the linker run in flight, or pc = "idle"
    returned,      \* what the last finished run returned
    observed,      \* provider calls and scores of the last finished run
    embedMemo,     \* text -> response of the embedding provider
    verifyMemo,    \* <<question, answer>> -> response of the verifier
    runsDone,      \* number of finished runs
    previous,      \* what the finished run before the last returned
    cleanRuns,     \* finished runs since the store last changed (at most 2)
    deletes        \* number of rows deleted so far

linkerVars == <<messages, run, returned, observed, embedMemo, verifyMemo,
                runsDone, previous, cleanRuns, deletes>>


\* the state of the local RAG search (rag_api)
VARIABLES
    store,            \* set of the ids of the rows in the store
    vectorsCache,     \* module variable vectorsCache (NoCache is null)
    lastCacheUpdate,  \* module variable lastCacheUpdate
    clock,            \* Date.now(), in minutes
    search,           \* the secureRAGSearch call in flight, or pc = "idle"
    lastQuery,        \* the query of the last finished search
    validation,       \* filterQuery's result in the last finished search
    rankerRan,        \* searchLocal was entered in the last finished search
    rawResults,       \* what searchLocal returned in the last finished search
    guarded,          \* what applyGuardrails returned in it
    response,         \* what secureRAGSearch returned
    searches,         \* number of finished searches
    ticks,            \* number of clock steps
    lastEmbed         \* what the embedding provider did in the last search

\* the columns of table messages that the write endpoints change, and what
\* the endpoints and loadVectors did
VARIABLES
    rows,             \* EntryIds -> the columns of the row
    feedbackWired,    \* setupFeedbackEndpoints was given invalidateCache
    sinceLoad,        \* acknowledged write and invalidateCache call since
                      \* the last loadVectors
    purged,           \* ids soft-deleted when invalidateCache was called
    lastLoad,         \* what the last loadVectors did and returned
    lastFeedback,     \* the last updateMessageRelevance: values read, written
    trail,            \* EntryIds -> votes and scores stored since Init
    writes,           \* number of write requests
    loads             \* number of loadVectors calls of GET /api/rag-stats

writeVars == <<rows, feedbackWired, sinceLoad, purged, lastLoad, lastFeedback,
               trail, writes, loads>>

\* the inputs and results of the two cosine functions
VARIABLES cosineInput, cosineOutput

cosineVars == <<cosineInput, cosineOutput>>

\* the ranker and the guardrails applied to a given cache
VARIABLES rankInput, rankOutput
rankVars == <<rankInput, rankOutput>>

VARIABLES transcription
transcribeVars == <<transcription>>
VARIABLES
    handlers,      \* the calls of processMessage on the voice message
    incoming       \* the voice message and the time of its processing
ingestVars == <<handlers, incoming>>
laterVars == <<transcribeVars, ingestVars>>
restVars == <<rankVars, laterVars>>

searchVars == <<store, vectorsCache, lastCacheUpdate, clock, search, lastQuery,
                validation, rankerRan, rawResults, guarded, response,
                searches, ticks, lastEmbed, writeVars, cosineVars,
                   restVars>>


NoDecision == [qid |-> NoId, confidence |-> NoConf, method |-> "none"]
Decision(qid, confidence, method) ==
    [qid |-> qid, confidence |-> confidence, method |-> method]

\* the link fields of a row, as a decision
LinkOf(row) ==
    Decision(row.link_question_id, row.link_confidence, row.link_method)

IdleRun == [pc |-> "idle"]

NoObservation ==
    [ reply |-> FALSE, before |-> NoDecision, candidates |-> {},
      selected |-> NoId, algoScore |-> NoConf, finalScore |-> NoConf,
      verifierCalled |-> FALSE,
      verifierFailed |-> FALSE, persisted |-> FALSE,
      embedCalls |-> 0, verifyCalls |-> 0,
      scored |-> << >>, verifierReturned |-> VerifyUnasked,
      deletedAtStart |-> {} ]

\* UPDATE messages SET link_question_id=?, link_confidence=?, link_method=?
\* WHERE wa_message_id=?
UpdateLink(msgs, a, qid, confidence, method) ==
    [msgs EXCEPT ![a].link_question_id = qid,
                 ![a].link_confidence = confidence,
                 ![a].link_method = method]

\* the rows selected by the candidate query (step 2)
\* mutant: the candidate query without its group_name condition
IsCandidate_AnyGroup(msgs, m, groupName, answerTsSec) ==
    /\ msgs[m].question_text # NoText
    /\ msgs[m].ts <= answerTsSec
    /\ msgs[m].ts >= answerTsSec - WINDOW_H
    /\ msgs[m].deleted_at = NotDeleted

IsCandidate(msgs, m, groupName, answerTsSec) ==
    /\ msgs[m].group_name = groupName
    /\ msgs[m].question_text # NoText
    /\ msgs[m].ts <= answerTsSec
    /\ msgs[m].ts >= answerTsSec - WINDOW_H
    /\ msgs[m].deleted_at = NotDeleted

CANDIDATE_LIMIT == 100

\* ORDER BY ts DESC; rows of equal ts come in rowid order
RECURSIVE OrderByTsDesc(_, _)
OrderByTsDesc(msgs, ids) ==
    IF ids = {} THEN << >>
    ELSE LET first == CHOOSE m \in ids :
                        \A n \in ids : \/ msgs[m].ts > msgs[n].ts
                                       \/ msgs[m].ts = msgs[n].ts /\ m <= n
         IN  <<first>> \o OrderByTsDesc(msgs, ids \ {first})

Take(seq, n) == SubSeq(seq, 1, Min(n, Len(seq)))

SelectCandidates(msgs, groupName, answerTsSec) ==
    LET ids == {m \in MsgIds : IsCandidate(msgs, m, groupName, answerTsSec)}
        ordered == Take(OrderByTsDesc(msgs, ids), CANDIDATE_LIMIT)
    IN  [i \in 1..Len(ordered) |->
            [ id |-> ordered[i],
              question_text |-> msgs[ordered[i]].question_text,
              ts |-> msgs[ordered[i]].ts,
              sender_name |-> msgs[ordered[i]].sender_name,
              q_embed |-> msgs[ordered[i]].q_embed ]]

\* w tenths of x
Weighted(w, x) == (w * x) \div 10

\* step 4: the score of one candidate
CandidateScore(candidate, args, answerEmbedding, questionEmbedding) ==
    LET question == candidate.question_text
        semanticScore ==
            IF answerEmbedding # NoVec /\ questionEmbedding # NoVec
            THEN cosineSimilarity(answerEmbedding, questionEmbedding)
            ELSE 0
        textScore == textSimilarity(question, args.answerText)
        sameAuthor == candidate.sender_name = args.answerSender
        timeGap == args.answerTsSec - candidate.ts
        contextScore == analyzeContext(question, args.answerText, timeGap)
        hint == IF args.questionTextHint # NoText
                THEN Weighted(1, textSimilarity(args.questionTextHint, question))
                ELSE 0
    IN  Weighted(SIM_WEIGHT, semanticScore)
        + Weighted(TEXT_WEIGHT, textScore)
        + Weighted(CONTEXT_WEIGHT, contextScore)
        + (IF sameAuthor THEN SAME_AUTHOR_BONUS ELSE 0)
        + (IF detectLanguage(question) = detectLanguage(args.answerText)
           THEN LANG_BONUS_MATCH ELSE 0)
        - TIME_DECAY_PER_H * Min(48, timeGap)
        + hint

\* verifyWithAI: the score it hands back for a provider response
\* (result.score || 0.5 clamped to [0,1]; 0.5 when the call or the parse fails)
verifyWithAI(outcome) ==
    IF outcome = VerifyFail THEN VERIFY_DEFAULT
    ELSE Max(0, Min(SCALE, IF outcome = 0 THEN VERIFY_DEFAULT ELSE outcome))

\* step 5: 70% algorithm + 30% verifier
Blend(algo, ai) == Weighted(7, algo) + Weighted(3, ai)

\* a run that finishes: its return value and what it left in the store
Return(d, msgs, obs) ==
    /\ messages' = msgs
    /\ previous' = returned
    /\ returned' = d
    /\ observed' = obs
    /\ runsDone' = runsDone + 1
    /\ run' = IdleRun
    /\ cleanRuns' = IF run.pc # "idle" /\ run.tainted THEN 0
                    ELSE Min(2, cleanRuns + 1)
    /\ UNCHANGED deletes

\* steps 6 and 7: the decision on the final score
Decide(a, best, finalScore, aiVerification, obs) ==
    IF finalScore < THRESHOLD_ACCEPT
    THEN Return(Decision(NoId, finalScore, "low-score"),
                UpdateLink(messages, a, NoId, finalScore, "low-score"),
                [obs EXCEPT !.persisted = TRUE, !.finalScore = finalScore])
    ELSE LET method == IF aiVerification THEN "ai-enhanced" ELSE "algorithm"
         IN  Return(Decision(best.id, finalScore, method),
                    UpdateLink(messages, a, best.id, finalScore, method),
                    [obs EXCEPT !.persisted = TRUE, !.finalScore = finalScore])


\* ------------------------------------------------------------------------
\* enhancedMatchAnswerToQuestion, called by processMessage on the voice
\* message.  The function is asynchronous: every await of a provider is the
\* end of one step.
\* ------------------------------------------------------------------------

\* entry: reply hard-link (step 1), candidate query (step 2), and the call
\* of the embedding provider for the answer (step 3)
LinkStart ==
    /\ run.pc = "idle"
    /\ runsDone < MaxRuns
    /\ LET a == AnswerId
           row == messages[a]
           args == [ groupName |-> row.group_name,
                     audioWAId |-> a,
                     answerText |-> row.transcript_raw,
                     answerSender |-> row.sender_name,
                     answerTsSec |-> row.ts,
                     repliedToMessageId |-> row.replied_to_message_id,
                     questionTextHint |-> row.question_text ]
           candidates == SelectCandidates(messages, args.groupName,
                                          args.answerTsSec)
           obs == [NoObservation EXCEPT
                     !.before = LinkOf(row),
                     !.deletedAtStart =
                         {m \in MsgIds : messages[m].deleted_at # NotDeleted}]
       IN  IF args.repliedToMessageId # NoId
           THEN /\ Return(Decision(args.repliedToMessageId, REPLY_HARDLINK, "reply"),
                          UpdateLink(messages, a, args.repliedToMessageId,
                                     REPLY_HARDLINK, "reply"),
                          [obs EXCEPT !.reply = TRUE, !.persisted = TRUE])
                /\ UNCHANGED <<embedMemo, verifyMemo>>
           ELSE IF Len(candidates) = 0
           THEN /\ Return(Decision(NoId, 0, "no-candidates"), messages, obs)
                /\ UNCHANGED <<embedMemo, verifyMemo>>
           ELSE /\ run' = [ pc |-> "embedAnswer", args |-> args,
                            candidates |-> candidates, idx |-> 1,
                            answerEmbedding |-> NoVec,
                            bestMatch |-> [id |-> NoId, score |-> 0,
                                           question_text |-> NoText],
                            obs |-> [obs EXCEPT !.candidates =
                                       {candidates[i].id : i \in 1..Len(candidates)}],
                            tainted |-> FALSE ]
                /\ UNCHANGED <<messages, returned, observed, embedMemo,
                               verifyMemo, runsDone, previous, cleanRuns,
                               deletes>>
    /\ UNCHANGED searchVars

\* step 3: the answer's embedding comes back (or the call failed) and is
\* stored in a_embed
LinkEmbedAnswer ==
    /\ run.pc = "embedAnswer"
    /\ \E o \in EmbedOutcomes :
        /\ embedMemo[run.args.answerText] \in {Unasked, o}
        /\ embedMemo' = [embedMemo EXCEPT ![run.args.answerText] = o]
        /\ run' = [run EXCEPT !.pc = "score",
                              !.answerEmbedding = VectorOf(o),
                              !.obs.embedCalls = @ + 1]
        /\ messages' = IF o # EmbedFail
                       THEN [messages EXCEPT ![run.args.audioWAId].a_embed =
                                                JSONstringify(VectorOf(o))]
                       ELSE messages
    /\ UNCHANGED <<returned, observed, verifyMemo, runsDone, previous, cleanRuns,
                               deletes>>
    /\ UNCHANGED searchVars

\* the update of bestMatch at the end of one iteration of the scoring loop
\* mutant: a later candidate of equal score replaces the best one
BestAfter_LaterWins(bestMatch, candidate, finalScore) ==
    IF finalScore >= bestMatch.score
    THEN [id |-> candidate.id, score |-> finalScore,
          question_text |-> candidate.question_text]
    ELSE bestMatch

\* if (finalScore > bestMatch.score) bestMatch = {...}
BestAfter(bestMatch, candidate, finalScore) ==
    IF finalScore > bestMatch.score
    THEN [id |-> candidate.id, score |-> finalScore,
          question_text |-> candidate.question_text]
    ELSE bestMatch

\* step 4, one iteration whose question embedding is read from q_embed
\* what the loop computed for one candidate
Scored(candidate, finalScore) ==
    [id |-> candidate.id, ts |-> candidate.ts, score |-> finalScore]

LinkScoreStored ==
    /\ run.pc = "score"
    /\ run.idx <= Len(run.candidates)
    /\ LET candidate == run.candidates[run.idx]
       IN  /\ candidate.q_embed # NoEmbed
           /\ \E finalScore \in
                    { CandidateScore(candidate, run.args, run.answerEmbedding,
                                     JSONparse(candidate.q_embed)) } :
                run' = [run EXCEPT
                    !.idx = @ + 1,
                    !.obs.scored = Append(@, Scored(candidate, finalScore)),
                    !.bestMatch = BestAfter(@, candidate, finalScore)]
    /\ UNCHANGED <<messages, returned, observed, embedMemo, verifyMemo,
                   runsDone, previous, cleanRuns, deletes>>
    /\ UNCHANGED searchVars

\* step 4, one iteration whose question embedding is asked of the provider
\* and stored in q_embed
LinkScoreEmbed ==
    /\ run.pc = "score"
    /\ run.idx <= Len(run.candidates)
    /\ LET candidate == run.candidates[run.idx]
       IN  /\ candidate.q_embed = NoEmbed
           /\ \E o \in EmbedOutcomes :
                /\ embedMemo[candidate.question_text] \in {Unasked, o}
                /\ embedMemo' = [embedMemo EXCEPT ![candidate.question_text] = o]
                /\ messages' = IF o # EmbedFail
                               THEN [messages EXCEPT ![candidate.id].q_embed =
                                                JSONstringify(VectorOf(o))]
                               ELSE messages
                /\ \E finalScore \in
                         { CandidateScore(candidate, run.args,
                                          run.answerEmbedding, VectorOf(o)) } :
                     run' = [run EXCEPT
                         !.idx = @ + 1,
                         !.obs.embedCalls = @ + 1,
                         !.obs.scored = Append(@, Scored(candidate, finalScore)),
                         !.bestMatch = BestAfter(@, candidate, finalScore)]
    /\ UNCHANGED <<returned, observed, verifyMemo, runsDone, previous, cleanRuns,
                               deletes>>
    /\ UNCHANGED searchVars

\* end of the loop: no valid match, or the verifier is called (score > 0.3),
\* or the decision is taken on the algorithmic score
LinkSelect ==
    /\ run.pc = "score"
    /\ run.idx > Len(run.candidates)
    /\ LET best == run.bestMatch
           obs == [run.obs EXCEPT !.selected = best.id,
                                  !.algoScore = IF best.id = NoId THEN NoConf
                                                ELSE best.score]
       IN  IF best.id = NoId
           THEN Return(Decision(NoId, 0, "no-valid-match"), messages, obs)
           ELSE IF VERIFY_WITH_GPT /\ best.score > VERIFY_MIN_SCORE
           THEN /\ run' = [run EXCEPT !.pc = "verify", !.obs = obs]
                /\ UNCHANGED <<messages, returned, observed, runsDone,
                               previous, cleanRuns, deletes>>
           ELSE Decide(run.args.audioWAId, best, best.score, FALSE, obs)
    /\ UNCHANGED <<embedMemo, verifyMemo>>
    /\ UNCHANGED searchVars

\* step 5: the verifier answers (or fails), then steps 6 and 7
LinkVerify ==
    /\ run.pc = "verify"
    /\ LET key == <<run.bestMatch.question_text, run.args.answerText>>
       IN  \E o \in VerifyOutcomes :
            /\ verifyMemo[key] \in {VerifyUnasked, o}
            /\ verifyMemo' = [verifyMemo EXCEPT ![key] = o]
            /\ Decide(run.args.audioWAId, run.bestMatch,
                      Blend(run.bestMatch.score, verifyWithAI(o)), TRUE,
                      [run.obs EXCEPT !.verifierCalled = TRUE,
                                      !.verifierFailed = (o = VerifyFail),
                                      !.verifierReturned = o,
                                      !.verifyCalls = @ + 1])
    /\ UNCHANGED embedMemo
    /\ UNCHANGED searchVars

\* DELETE /api/messages/:id (soft delete) of debug_server.js
\* vectorsCache is null (loaded = FALSE) or an array of rows
NoCache == [loaded |-> FALSE, rows |-> << >>]

\* invalidateCache() of rag_api.js
invalidateCache == [cache |-> NoCache, updated |-> 0]

\* DELETE /api/messages/:id of debug_server.js, on the rows the linker reads
DeleteMessage ==
    \E m \in MsgIds :
        /\ deletes < MaxDeletes
        /\ messages[m].deleted_at = NotDeleted
        /\ messages' = [messages EXCEPT ![m].deleted_at = AnswerTs]
        /\ deletes' = deletes + 1
        /\ cleanRuns' = 0
        /\ run' = IF run.pc = "idle" THEN run ELSE [run EXCEPT !.tainted = TRUE]
        /\ vectorsCache' = invalidateCache.cache
        /\ lastCacheUpdate' = invalidateCache.updated
        /\ UNCHANGED <<returned, observed, embedMemo, verifyMemo, runsDone,
                       previous>>
        /\ UNCHANGED <<store, clock, search, lastQuery, validation, rankerRan,
                       rawResults, guarded, response, searches, ticks,
                       lastEmbed, writeVars, cosineVars,
                   restVars>>

\* ------------------------------------------------------------------------
\* Properties of the linker (checked under LinkerSpec)
\* ------------------------------------------------------------------------
Answer == messages[AnswerId]
Finished == runsDone > 0
CarriesReply == Answer.replied_to_message_id # NoId
PoolNow == SelectCandidates(messages, Answer.group_name, Answer.ts)

\* C1: an answer that carries a reply-to reference is linked to the
\* replied-to message with confidence exactly 1.0 and method 'reply', in the
\* return value and in the store, whatever the candidate pool holds; its run
\* never waits on a provider and no embedding or verifier call is ever made.
C1_ReplyHardLink ==
    CarriesReply =>
        /\ run.pc = "idle"
        /\ \A t \in Texts : embedMemo[t] = Unasked
        /\ \A k \in DOMAIN verifyMemo : verifyMemo[k] = VerifyUnasked
        /\ Finished =>
             /\ returned = Decision(Answer.replied_to_message_id, SCALE, "reply")
             /\ LinkOf(Answer) = returned
             /\ observed.embedCalls = 0
             /\ observed.verifyCalls = 0

\* a reply-linked answer whose candidate pool is not empty
C1_Witness ==
    /\ Finished
    /\ CarriesReply
    /\ Len(PoolNow) > 0
    /\ returned.method = "reply"

\* C2 (as claimed): when the verifier call fails, the decision is taken on
\* the unblended algorithmic score, which is also the persisted confidence.
C2_VerifierFailureSkipsBlend ==
    (Finished /\ observed.verifierFailed) =>
        /\ observed.finalScore = observed.algoScore
        /\ Answer.link_confidence = observed.algoScore
        /\ (returned.qid # NoId) <=> (observed.algoScore >= Pct(55))

C4_PersistedEqualsReturned ==
    (Finished /\ run.pc = "idle") => LinkOf(Answer) = returned

\* C5: two runs on the same answer with no change of the candidates in
\* between (the providers being functions of their inputs) return the same
\* decision.
C5_RerunSameDecision ==
    cleanRuns = 2 => returned = previous

\* the second run scored every candidate on an embedding read back from the
\* store (its only provider call for embeddings was the answer's) and linked
C5_Witness ==
    /\ cleanRuns = 2
    /\ observed.candidates # {}
    /\ observed.embedCalls = 1
    /\ returned.qid # NoId


\* ------------------------------------------------------------------------
\* guardrails.js, part 1: filterQuery.  A query is the sequence of its
\* characters; Missing stands for undefined / null.
\* ------------------------------------------------------------------------
Missing == <<"undefined">>

IsSpace(c) == c = " "
IsDigit(c) == c \in {"7"}
IsUpper(c) == c \in {"A", "R", "H"}
IsLower(c) == c \in {"a", "b", "c", "d", "e", "f", "h", "i", "l", "m", "o",
                     "r", "s", "t", "u", "v"}
\* \w of the regular expressions
IsWordChar(c) == IsDigit(c) \/ IsUpper(c) \/ IsLower(c) \/ c = "_"

LowerChar(c) ==
    CASE c = "A" -> "a" [] c = "R" -> "r" [] c = "H" -> "h" [] OTHER -> c

\* String.prototype.toLowerCase
toLowerCase(str) == [i \in 1..Len(str) |-> LowerChar(str[i])]

\* String.prototype.trim
RECURSIVE TrimLeft(_)
TrimLeft(str) ==
    IF str # << >> /\ IsSpace(Head(str)) THEN TrimLeft(Tail(str)) ELSE str

RECURSIVE TrimRight(_)
TrimRight(str) ==
    IF str # << >> /\ IsSpace(str[Len(str)])
    THEN TrimRight(SubSeq(str, 1, Len(str) - 1))
    ELSE str

trim(str) == TrimRight(TrimLeft(str))

\* replace(/\s+/g, ' ')
RECURSIVE CollapseSpaces(_)
CollapseSpaces(str) ==
    IF str = << >> THEN << >>
    ELSE IF IsSpace(Head(str))
         THEN <<" ">> \o CollapseSpaces(TrimLeft(str))
         ELSE <<Head(str)>> \o CollapseSpaces(Tail(str))

\* needle occurs in str at position i
OccursAt(str, needle, i) ==
    /\ i >= 1
    /\ i + Len(needle) - 1 <= Len(str)
    /\ SubSeq(str, i, i + Len(needle) - 1) = needle

\* String.prototype.includes
Includes(str, needle) == \E i \in 1..(Len(str) + 1) : OccursAt(str, needle, i)

\* the keywords of HALAKHIC_KEYWORDS that the sample texts can contain
kwRav == <<"r", "a", "v">>
kwFour == <<"f", "o", "u", "r">>
kwLait == <<"l", "a", "i", "t">>
HALAKHIC_KEYWORDS == {kwRav, kwFour, kwLait}

\* mutant: four characters are enough
MIN_QUERY_LENGTH_Lowered == 5 - 1

MIN_QUERY_LENGTH == 5
TOO_SHORT == "Question trop courte (minimum 5 caracteres)"
SPAM == "Requete detectee comme spam ou invalide"
MAYBE_OFF_TOPIC == "Question peut-etre hors-sujet halakhique"
NoReason == "null"

wSelect == <<"s", "e", "l", "e", "c", "t">>
wFrom == <<"f", "r", "o", "m">>
wScript == <<"<", "s", "c", "r", "i", "p", "t">>
wJavascript == <<"j", "a", "v", "a", "s", "c", "r", "i", "p", "t", ":">>
Greetings == { <<"t", "e", "s", "t">>, <<"h", "e", "l", "l", "o">>, <<"h", "i">>,
               <<"s", "a", "l", "u", "t">>,
               <<"b", "o", "n", "j", "o", "u", "r">> }

\* SPAM_PATTERNS, in their order
SpamTooShort(q) == Len(q) <= 4
SpamNoLetter(q) ==
    Len(q) >= 1 /\ \A i \in 1..Len(q) : IsSpace(q[i]) \/ IsDigit(q[i]) \/ ~IsWordChar(q[i])
SpamSql(q) ==
    LET l == toLowerCase(q)
    IN  \E i, j \in 1..Len(q) :
            /\ OccursAt(l, wSelect, i)
            /\ OccursAt(l, wFrom, j)
            /\ i + Len(wSelect) <= Len(q)
            /\ IsSpace(q[i + Len(wSelect)])
            /\ j - 1 > i + Len(wSelect)
            /\ IsSpace(q[j - 1])
SpamScript(q) == Includes(toLowerCase(q), wScript)
SpamJavascript(q) == Includes(toLowerCase(q), wJavascript)
SpamRepeated(q) ==
    \E i \in 1..Len(q) :
        /\ i + 4 <= Len(q)
        /\ IsWordChar(q[i])
        /\ \A k \in 1..4 : q[i + k] = q[i]
SpamGreeting(q) ==
    \E g \in Greetings :
        /\ OccursAt(toLowerCase(q), g, 1)
        /\ \A k \in (Len(g) + 1)..Len(q) : IsSpace(q[k]) \/ q[k] \in {"!", "?"}

SPAM_PATTERNS(q) ==
    \/ SpamTooShort(q)
    \/ SpamNoLetter(q)
    \/ SpamSql(q)
    \/ SpamScript(q)
    \/ SpamJavascript(q)
    \/ SpamRepeated(q)
    \/ SpamGreeting(q)

\* filterQuery(query)
filterQuery(query) ==
    LET raw == IF query = Missing THEN << >> ELSE query
        cleaned == toLowerCase(CollapseSpaces(trim(raw)))
        isHalakhic == \E kw \in HALAKHIC_KEYWORDS : Includes(cleaned, toLowerCase(kw))
    IN  IF Len(cleaned) < MIN_QUERY_LENGTH
        THEN [ valid |-> FALSE, cleaned |-> << >>, confidence |-> 0,
               reason |-> TOO_SHORT, isHalakhic |-> FALSE ]
        ELSE IF SPAM_PATTERNS(query)
        THEN [ valid |-> FALSE, cleaned |-> << >>, confidence |-> 0,
               reason |-> SPAM, isHalakhic |-> FALSE ]
        ELSE IF ~isHalakhic
        THEN [ valid |-> TRUE, cleaned |-> cleaned, confidence |-> Pct(50),
               reason |-> MAYBE_OFF_TOPIC, isHalakhic |-> FALSE ]
        ELSE [ valid |-> TRUE, cleaned |-> cleaned, confidence |-> SCALE,
               reason |-> NoReason, isHalakhic |-> TRUE ]


\* ------------------------------------------------------------------------
\* guardrails.js, parts 2 to 5.  A search result is
\*   [id, score, question, answer, audio_path, timestamp]
\* where answer is [len, keywords]: the length of the answer text and the
\* keywords of HALAKHIC_KEYWORDS it contains; audio_path is NoAudio or a
\* path; timestamp is in minutes, NoTimestamp when the row has none.
\* ------------------------------------------------------------------------
NoAudio == "null"
NoTimestamp == 0
YEAR_MINUTES == 525600

WEIGHT_vectorScore == 40
WEIGHT_thematicScore == 25
WEIGHT_qualityScore == 20
WEIGHT_recencyScore == 15

\* Number.prototype.toFixed(3) followed by parseFloat: the nearest 1/1000
ToFixed3(x) == ((x + (SCALE \div 2000)) \div (SCALE \div 1000)) * (SCALE \div 1000)

\* calculateConfidence(result, query) at time now
calculateConfidence(result, query, now) ==
    LET vector == result.score
        queryLower == toLowerCase(query)
        matchedKeywords == { kw \in HALAKHIC_KEYWORDS :
                               Includes(queryLower, kw) /\ kw \in result.answer.keywords }
        thematic == Min(Cardinality(matchedKeywords) * Pct(20), SCALE)
        answerLength == result.answer.len
        quality0 == IF answerLength > 500 THEN SCALE
                    ELSE IF answerLength > 200 THEN Pct(80)
                    ELSE IF answerLength > 100 THEN Pct(60)
                    ELSE IF answerLength > 50 THEN Pct(40)
                    ELSE Pct(20)
        quality == IF result.audio_path # NoAudio
                   THEN Min(quality0 + Pct(10), SCALE) ELSE quality0
        recency == IF result.timestamp # NoTimestamp
                   THEN Max(0, SCALE - ((now - result.timestamp) * (SCALE \div 600))
                                          \div ((10 * YEAR_MINUTES) \div 600))
                   ELSE Pct(50)
        finalScore == ( WEIGHT_vectorScore * vector
                      + WEIGHT_thematicScore * thematic
                      + WEIGHT_qualityScore * quality
                      + WEIGHT_recencyScore * recency ) \div 100
    IN  [ score |-> ToFixed3(finalScore),
          level |-> IF finalScore > Pct(65) THEN "high"
                    ELSE IF finalScore > Pct(45) THEN "medium" ELSE "low",
          details |-> [vector |-> vector, thematic |-> thematic,
                       quality |-> quality, recency |-> recency] ]

MIN_RESPONSE_LENGTH == 30
MIN_VECTOR_SCORE == Pct(35)

\* mutant: a short answer is hidden even when it has an audio
ShouldShow_IgnoresAudio(result) ==
    /\ ~(result.score = 0 \/ result.score < MIN_VECTOR_SCORE)
    /\ ~(result.answer.len < MIN_RESPONSE_LENGTH)

\* filterResponse(result, query).shouldShow
ShouldShow(result) ==
    /\ ~(result.score = 0 \/ result.score < MIN_VECTOR_SCORE)
    /\ ~(result.answer.len < MIN_RESPONSE_LENGTH /\ result.audio_path = NoAudio)

\* filterResponse(result, query)
filterResponse(result, query, now) ==
    [ valid |-> ~(result.score = 0 \/ result.score < MIN_VECTOR_SCORE),
      shouldShow |-> ShouldShow(result),
      confidence |-> calculateConfidence(result, query, now) ]

REJECTION_noResults == "noResults"
REJECTION_lowConfidence == "lowConfidence"
REJECTION_offTopic == "offTopic"

RECURSIVE MaxScore(_)
MaxScore(results) ==
    IF Len(results) = 1 THEN results[1].score
    ELSE Max(results[1].score, MaxScore(Tail(results)))

\* mutant: a confidence of 0.5 counts as off-topic
OFF_TOPIC_BELOW_Raised == Pct(60)

\* the confidence under which a query outside the domain is off-topic
OFF_TOPIC_BELOW == Pct(50)

\* shouldReject(results, queryFilter)
shouldReject(results, queryFilter) ==
    IF Len(results) = 0
    THEN [reject |-> TRUE, warn |-> FALSE, message |-> REJECTION_noResults]
    ELSE IF ~queryFilter.isHalakhic /\ queryFilter.confidence < OFF_TOPIC_BELOW
    THEN [reject |-> TRUE, warn |-> FALSE, message |-> REJECTION_offTopic]
    ELSE IF MaxScore(results) < MIN_VECTOR_SCORE
    THEN [reject |-> TRUE, warn |-> FALSE, message |-> REJECTION_noResults]
    ELSE IF MaxScore(results) < Pct(50)
    THEN [reject |-> FALSE, warn |-> TRUE, message |-> REJECTION_lowConfidence]
    ELSE [reject |-> FALSE, warn |-> FALSE, message |-> NoReason]

\* .filter(r => r.validation.shouldShow)
RECURSIVE FilterShown(_)
FilterShown(seq) ==
    IF seq = << >> THEN << >>
    ELSE IF Head(seq).validation.shouldShow
         THEN <<Head(seq)>> \o FilterShown(Tail(seq))
         ELSE FilterShown(Tail(seq))

\* the position that a stable descending sort on keys puts first
FirstMax(keys) ==
    CHOOSE i \in 1..Len(keys) :
        /\ \A j \in 1..Len(keys) : keys[j] <= keys[i]
        /\ \A j \in 1..(i - 1) : keys[j] < keys[i]

Without(seq, i) == SubSeq(seq, 1, i - 1) \o SubSeq(seq, i + 1, Len(seq))

\* mutant: the surviving results are left in the order of the ranker
SortByConfidence_Unsorted(seq) == seq

\* .sort((a, b) => b.confidence.score - a.confidence.score)
RECURSIVE SortByConfidence(_)
SortByConfidence(seq) ==
    IF seq = << >> THEN << >>
    ELSE LET i == FirstMax([k \in 1..Len(seq) |-> seq[k].confidence.score])
         IN  <<seq[i]>> \o SortByConfidence(Without(seq, i))

\* applyGuardrails(query, searchResults) at time now
applyGuardrails(query, searchResults, now) ==
    LET queryValidation == filterQuery(query)
        rejection == shouldReject(searchResults, queryValidation)
        Validated(r) == [ id |-> r.id, score |-> r.score, question |-> r.question,
                          answer |-> r.answer, audio_path |-> r.audio_path,
                          timestamp |-> r.timestamp,
                          validation |-> filterResponse(r, query, now),
                          confidence |-> filterResponse(r, query, now).confidence ]
        validatedResults ==
            SortByConfidence(FilterShown(
                [i \in 1..Len(searchResults) |-> Validated(searchResults[i])]))
    IN  IF ~queryValidation.valid
        THEN [ success |-> FALSE, results |-> << >>,
               message |-> queryValidation.reason, warning |-> NoReason,
               validated |-> 0, rejected |-> 0 ]
        ELSE IF rejection.reject
        THEN [ success |-> FALSE, results |-> << >>,
               message |-> rejection.message, warning |-> NoReason,
               validated |-> 0, rejected |-> 0 ]
        ELSE [ success |-> TRUE, results |-> validatedResults,
               message |-> NoReason,
               warning |-> IF rejection.warn THEN rejection.message ELSE NoReason,
               validated |-> Len(validatedResults),
               rejected |-> Len(searchResults) - Len(validatedResults) ]


\* ------------------------------------------------------------------------
\* The local RAG search: loadVectors, searchLocal, secureRAGSearch.
\* The rows that loadVectors reads (message_embeddings joined with
\* messages) are kept in the variable store.
\* ------------------------------------------------------------------------
MaxEntries == 2
MaxSearches == 2
MaxTicks == 1

NowStart == 20 * YEAR_MINUTES
CACHE_TTL == 5
Cached(vectors) == [loaded |-> TRUE, rows |-> vectors]
NoRelevance == -1

\* x || 0.5
OrHalf(x) == IF x = NoRelevance \/ x = 0 THEN Pct(50) ELSE x

qRavFour == <<"r", "a", "v", " ", "f", "o", "u", "r">>
qFour == <<"f", "o", "u", "r">>
qLait == <<"l", "a", "i", "t">>

\* the rows the store can hold; the id of a row is its position here
SearchCatalog ==
    << [ vector |-> JSONstringify(<<3, 4>>), question_text |-> qRavFour,
         answer |-> [len |-> 250, keywords |-> {kwRav, kwFour}],
         audio_path |-> "media/a1.ogg", ts |-> NowStart - YEAR_MINUTES,
         relevance_score |-> NoRelevance,
         feedback_count |-> 0 ],
       [ vector |-> JSONstringify(<<5, 0>>), question_text |-> qFour,
         answer |-> [len |-> 3, keywords |-> {}],
         audio_path |-> NoAudio, ts |-> NoTimestamp,
         relevance_score |-> SCALE,
         feedback_count |-> 1 ],
       [ vector |-> JSONstringify(<<5, 0>>), question_text |-> qLait,
         answer |-> [len |-> 600, keywords |-> {kwLait}],
         audio_path |-> NoAudio, ts |-> NowStart - 12 * YEAR_MINUTES,
         relevance_score |-> Pct(5),
         feedback_count |-> 20 ],
       [ vector |-> JSONstringify(<<-4, 3>>), question_text |-> << >>,
         answer |-> [len |-> 20, keywords |-> {}],
         audio_path |-> "media/a4.ogg", ts |-> NowStart - 2 * YEAR_MINUTES,
         relevance_score |-> Pct(50),
         feedback_count |-> 0 ],
       [ vector |-> JSONstringify(<<3, 4>>), question_text |-> qLait,
         answer |-> [len |-> 12, keywords |-> {}],
         audio_path |-> "media/a5.ogg", ts |-> NowStart - YEAR_MINUTES,
         relevance_score |-> NoRelevance,
         feedback_count |-> 0 ] >>

EntryIds == DOMAIN SearchCatalog

\* the queries of a request: every text of at most MaxShortLen characters
\* over ShortChars, a missing query, and longer samples
MaxShortLen == 4
ShortChars == {" ", "a"}
ShortQueries == UNION { [1..n -> ShortChars] : n \in 0..MaxShortLen }
SampleQueries ==
    { qRavFour,
      <<" ", "R", "a", "v", " ", " ", "l", "a", "i", "t">>,
      <<"a", "b", "c", "d", "e">>,
      <<"a", "a", "a", "a", "a", "a">>,
      <<"7", "7", " ", "7", "7", "7">>,
      <<"h", "i", "!", "!", "!">>,
      <<"a", " ", " ", " ", "a">> }
Queries == ShortQueries \cup {Missing} \cup SampleQueries
SearchLimits == {1, 5}

\* filterQuery on each query of Queries
FilterQueryOf == [query \in Queries |-> filterQuery(query)]

\* table messages as the import left it
NotVoted == 0
InitialRows ==
    [ id \in EntryIds |->
        [ question_text |-> SearchCatalog[id].question_text,
          answer |-> SearchCatalog[id].answer,
          relevance_score |-> SearchCatalog[id].relevance_score,
          feedback_count |-> SearchCatalog[id].feedback_count,
          deleted_at |-> NotDeleted,
          feedback_score |-> NotVoted ] ]

\* mutant: soft-deleted rows are read too
Visible_IgnoresDeleted(row) == TRUE

\* WHERE m.deleted_at IS NULL
Visible(row) == row.deleted_at = NotDeleted

\* the SELECT of loadVectors: rows in rowid order
RECURSIVE ReadRows(_, _, _)
ReadRows(ids, table, i) ==
    IF i > Len(SearchCatalog) THEN << >>
    ELSE (IF i \in ids /\ Visible(table[i]) THEN <<i>> ELSE << >>)
         \o ReadRows(ids, table, i + 1)

\* rows.map(...) of loadVectors
CacheRows(ids, table) ==
    LET read == ReadRows(ids, table, 1)
    IN  [k \in 1..Len(read) |->
            LET r == table[read[k]]
            IN  [ id |-> read[k],
                  vector |-> JSONparse(SearchCatalog[read[k]].vector),
                  payload |-> [ question |-> r.question_text, answer |-> r.answer,
                                audio_path |-> SearchCatalog[read[k]].audio_path,
                                timestamp |-> SearchCatalog[read[k]].ts,
                                feedback_score |-> r.feedback_score ],
                  relevance_score |-> OrHalf(r.relevance_score) ]]

\* loadVectors() at time t.  outcome is what the store does when it is read:
\* "ok", "openFails" (new Database throws) or "readFails" (the query throws).
\* The result is [cache, updated, vectors, threw].
\* mutant: a snapshot is used whatever its age
CacheFresh_IgnoresAge(cache, updated, t) == cache.loaded

CacheFresh(cache, updated, t) == cache.loaded /\ t - updated < CACHE_TTL

loadVectors(cache, updated, t, ids, table, outcome) ==
    IF CacheFresh(cache, updated, t)
    THEN [cache |-> cache, updated |-> updated, vectors |-> cache.rows,
          threw |-> FALSE]
    ELSE IF outcome = "openFails"
    THEN [cache |-> cache, updated |-> updated, vectors |-> << >>, threw |-> TRUE]
    ELSE IF outcome = "readFails"
    THEN [cache |-> Cached(<< >>), updated |-> updated, vectors |-> << >>,
          threw |-> FALSE]
    ELSE [cache |-> Cached(CacheRows(ids, table)), updated |-> t,
          vectors |-> CacheRows(ids, table), threw |-> FALSE]

\* cosineSimilarity(a, b) of the search: no guard on the norms
NaN == -1000 * SCALE
cosineSimilarityLocal(a, b) ==
    LET dot == Dot(a, b, Len(a))
        normA == Dot(a, a, Len(a))
        normB == Dot(b, b, Len(a))
    IN  IF ISqrt(normA) * ISqrt(normB) = 0 THEN NaN
        ELSE (dot * SCALE) \div (ISqrt(normA) * ISqrt(normB))

\* split(/\s+/).filter(w => w.length > 2), in order, with repetitions
RECURSIVE SplitWords(_, _)
SplitWords(str, word) ==
    IF str = << >> THEN (IF Len(word) > 2 THEN <<word>> ELSE << >>)
    ELSE IF IsSpace(Head(str))
         THEN (IF Len(word) > 2 THEN <<word>> ELSE << >>) \o SplitWords(Tail(str), << >>)
         ELSE SplitWords(Tail(str), Append(word, Head(str)))

RECURSIVE CountIncluded(_, _)
CountIncluded(keywords, text) ==
    IF keywords = << >> THEN 0
    ELSE (IF Includes(text, Head(keywords)) THEN 1 ELSE 0)
         + CountIncluded(Tail(keywords), text)

\* the score searchLocal gives one cached vector
LocalScore(v, queryVector, keywords) ==
    LET cosSim == cosineSimilarityLocal(queryVector, v.vector)
        \* in thousandths
        relevanceBoost == 1000 + ((OrHalf(v.relevance_score) - Pct(50)) * 400) \div SCALE
        keywordBonus == Pct(5) * CountIncluded(keywords, toLowerCase(v.payload.question))
    IN  IF cosSim = NaN THEN NaN
        ELSE (cosSim * relevanceBoost) \div 1000 + keywordBonus

\* .sort((a, b) => b.score - a.score)
RECURSIVE SortByScore(_)
SortByScore(seq) ==
    IF seq = << >> THEN << >>
    ELSE LET i == FirstMax([k \in 1..Len(seq) |-> seq[k].score])
         IN  <<seq[i]>> \o SortByScore(Without(seq, i))

\* searchLocal(query, limit), once the embedding of the query is known
searchLocal(query, limit, queryVector, vectors) ==
    LET keywords == SplitWords(toLowerCase(query), << >>)
        results == [k \in 1..Len(vectors) |->
                      [ id |-> vectors[k].id,
                        score |-> LocalScore(vectors[k], queryVector, keywords),
                        question |-> vectors[k].payload.question,
                        answer |-> vectors[k].payload.answer,
                        audio_path |-> vectors[k].payload.audio_path,
                        timestamp |-> vectors[k].payload.timestamp ]]
    IN  Take(SortByScore(results), limit)

\* path.basename of the audio path, under /audio/
AudioUrl(audio_path) ==
    CASE audio_path = "media/a1.ogg" -> "/audio/a1.ogg"
      [] audio_path = "media/a4.ogg" -> "/audio/a4.ogg"
      [] audio_path = "media/a5.ogg" -> "/audio/a5.ogg"
      [] OTHER -> NoAudio

IdleSearch == [pc |-> "idle"]
NoValidation == [valid |-> FALSE, cleaned |-> << >>, confidence |-> 0,
                 reason |-> "none", isHalakhic |-> FALSE]
NoGuarded == [ success |-> FALSE, results |-> << >>, message |-> "notCalled",
               warning |-> NoReason, validated |-> 0, rejected |-> 0 ]
NoResponse == [pending |-> TRUE]
StoreOutcomes == {"ok", "openFails", "readFails"}

\* the return of secureRAGSearch
Respond(query, queryValidation, ran, raw, g, resp) ==
    /\ lastQuery' = query
    /\ validation' = queryValidation
    /\ rankerRan' = ran
    /\ rawResults' = raw
    /\ guarded' = g
    /\ response' = resp
    /\ searches' = searches + 1
    /\ search' = IdleSearch

\* secureRAGSearch(query, {limit}): input validation, then the call of the
\* embedding provider made by searchLocal
SearchStart ==
    /\ search.pc = "idle"
    /\ searches < MaxSearches
    /\ \E query \in Queries :
        LET queryValidation == FilterQueryOf[query]
        IN  IF ~queryValidation.valid
            THEN Respond(query, queryValidation, FALSE, << >>, NoGuarded,
                         [ success |-> FALSE, error |-> queryValidation.reason,
                           results |-> << >> ])
            ELSE /\ \E limit \in SearchLimits :
                    search' = [ pc |-> "embedding", query |-> query,
                                limit |-> limit,
                                queryValidation |-> queryValidation ]
                 /\ UNCHANGED <<lastQuery, validation, rankerRan, rawResults,
                                guarded, response, searches>>
    /\ UNCHANGED <<store, vectorsCache, lastCacheUpdate, clock, ticks, lastEmbed,
                   writeVars, cosineVars,
                   restVars>>
    /\ UNCHANGED linkerVars

\* the embedding of the query comes back (or the call throws); the rest of
\* searchLocal, applyGuardrails and the construction of the response
SearchEmbedded ==
    /\ search.pc = "embedding"
    /\ \E o \in EmbedOutcomes, storeOutcome \in StoreOutcomes :
        \E loaded \in { IF o = EmbedFail
                        THEN [ cache |-> vectorsCache, updated |-> lastCacheUpdate,
                               vectors |-> << >>, threw |-> TRUE ]
                        ELSE loadVectors(vectorsCache, lastCacheUpdate, clock,
                                         store, rows, storeOutcome) } :
        \E rawFound \in { IF loaded.threw THEN << >>
                          ELSE searchLocal(search.queryValidation.cleaned,
                                           search.limit * 2, VectorOf(o),
                                           loaded.vectors) } :
        \E guardedResult \in { applyGuardrails(search.query, rawFound, clock) } :
        \E shown \in { Take(guardedResult.results, search.limit) } :
            /\ vectorsCache' = loaded.cache
            /\ lastCacheUpdate' = loaded.updated
            /\ lastEmbed' = o
            /\ Respond(search.query, search.queryValidation, TRUE, rawFound,
                       guardedResult,
                       [ success |-> guardedResult.success,
                         query |-> [ original |-> search.query,
                                     cleaned |-> search.queryValidation.cleaned,
                                     isHalakhic |-> search.queryValidation.isHalakhic ],
                         results |-> [k \in 1..Len(shown) |->
                                        [ id |-> shown[k].id,
                                          question |-> shown[k].question,
                                          answer |-> shown[k].answer,
                                          confidence |-> shown[k].confidence,
                                          audio_url |-> AudioUrl(shown[k].audio_path) ]],
                         stats |-> [ total_found |-> Len(rawFound),
                                     validated |-> guardedResult.validated,
                                     rejected |-> guardedResult.rejected ] ])
    /\ UNCHANGED <<store, clock, ticks, writeVars, cosineVars,
                   restVars>>
    /\ UNCHANGED linkerVars

\* time passes: one cache lifetime
Tick ==
    /\ ticks < MaxTicks
    /\ clock' = clock + CACHE_TTL
    /\ ticks' = ticks + 1
    /\ UNCHANGED <<store, vectorsCache, lastCacheUpdate, search, lastQuery,
                   validation, rankerRan, rawResults, guarded, response, searches,
                   lastEmbed, writeVars, cosineVars,
                   restVars>>
    /\ UNCHANGED linkerVars

\* ------------------------------------------------------------------------
\* The write endpoints and the feedback loop: feedback_system.js
\* (FeedbackManager, POST /api/feedback) and debug_server.js (DELETE and
\* PUT /api/messages/:id, POST /api/feedback), and GET /api/rag-stats.
\* ------------------------------------------------------------------------
MaxWrites == 2
MaxLoads == 2

\* mutant: a relevant vote counts as 0 and an irrelevant one as 1
FeedbackValue_Negated(isRelevant) == IF isRelevant THEN 0 ELSE SCALE

\* isRelevant ? 1 : 0
FeedbackValue(isRelevant) == IF isRelevant THEN SCALE ELSE 0

\* updateMessageRelevance(messageId, isRelevant) on the row it selected.
\* The division rounds down to a whole number of units of 1/SCALE.
updateMessageRelevance(msg, isRelevant) ==
    LET newCount == msg.feedback_count + 1
        currentScore == OrHalf(msg.relevance_score)
        feedbackValue == FeedbackValue(isRelevant)
        newScore == (currentScore * msg.feedback_count + feedbackValue) \div newCount
    IN  [msg EXCEPT !.relevance_score = newScore, !.feedback_count = newCount]

NoWrite == "none"
NothingSince == [write |-> NoWrite, invalidated |-> FALSE]
NoFeedback == [ id |-> NoId, isRelevant |-> FALSE,
                before |-> [relevance_score |-> NoRelevance, feedback_count |-> 0],
                after |-> [relevance_score |-> NoRelevance, feedback_count |-> 0] ]
NoLoad == [ called |-> FALSE, reread |-> FALSE, threw |-> FALSE,
            outcome |-> "none", snapshot |-> << >>, afterWrite |-> NoWrite,
            afterInvalidate |-> FALSE, purged |-> {}, visible |-> << >>,
            before |-> NoCache, age |-> 0 ]
InitialTrail ==
    [ id \in EntryIds |->
        [ fresh |-> /\ InitialRows[id].feedback_count = 0
                    /\ OrHalf(InitialRows[id].relevance_score) = Pct(50),
          votes |-> << >>,
          scores |-> <<OrHalf(InitialRows[id].relevance_score)>> ] ]

Deleted(table) == { id \in EntryIds : table[id].deleted_at # NotDeleted }

\* what every write request does to the counters and the record of
\* acknowledgements; invalidates tells whether invalidateCache() is called
Acknowledge(kind, table, invalidates) ==
    /\ rows' = table
    /\ writes' = writes + 1
    /\ sinceLoad' = [ write |-> kind,
                      invalidated |-> sinceLoad.invalidated \/ invalidates ]
    /\ vectorsCache' = IF invalidates THEN invalidateCache.cache ELSE vectorsCache
    /\ lastCacheUpdate' = IF invalidates THEN invalidateCache.updated
                          ELSE lastCacheUpdate
    /\ purged' = IF invalidates THEN purged \cup Deleted(table) ELSE purged

IsRelevantValues == {"true", "false", "undefined"}

\* POST /api/feedback of feedback_system.js: addFeedback, then
\* invalidateCache when the server passed it to setupFeedbackEndpoints
SubmitFeedback ==
    /\ writes < MaxWrites
    /\ \E messageId \in store, isRelevant \in IsRelevantValues :
        \E updated \in { IF isRelevant = "undefined" THEN rows[messageId]
                            ELSE updateMessageRelevance(rows[messageId],
                                                        isRelevant = "true") } :
            /\ Acknowledge("feedback", [rows EXCEPT ![messageId] = updated],
                           feedbackWired)
            /\ lastFeedback' =
                 IF isRelevant = "undefined" THEN lastFeedback
                 ELSE [ id |-> messageId, isRelevant |-> (isRelevant = "true"),
                        before |-> [ relevance_score |-> rows[messageId].relevance_score,
                                     feedback_count |-> rows[messageId].feedback_count ],
                        after |-> [ relevance_score |-> updated.relevance_score,
                                    feedback_count |-> updated.feedback_count ] ]
            /\ trail' =
                 IF isRelevant = "undefined" THEN trail
                 ELSE [trail EXCEPT
                         ![messageId].votes = Append(@, isRelevant = "true"),
                         ![messageId].scores = Append(@, updated.relevance_score)]
    /\ UNCHANGED <<store, clock, search, lastQuery, validation, rankerRan,
                   rawResults, guarded, response, searches, ticks, lastEmbed,
                   feedbackWired, lastLoad, loads, cosineVars,
                   restVars>>
    /\ UNCHANGED linkerVars

\* POST /api/feedback of debug_server.js: one row of table feedback with
\* is_valid; the cache is left as it is
PostFeedback ==
    /\ writes < MaxWrites
    /\ \E messageId \in store, isValid \in BOOLEAN :
        Acknowledge("feedback",
                    [rows EXCEPT ![messageId].feedback_score =
                                    IF isValid THEN @ + 1 ELSE @ - 1],
                    FALSE)
    /\ UNCHANGED <<store, clock, search, lastQuery, validation, rankerRan,
                   rawResults, guarded, response, searches, ticks, lastEmbed,
                   feedbackWired, lastLoad, lastFeedback, trail, loads,
                   cosineVars,
                   restVars>>
    /\ UNCHANGED linkerVars

EditBodies ==
    { [question |-> qLait, answer |-> [len |-> 40, keywords |-> {kwLait}]],
      [question |-> qFour, answer |-> [len |-> 10, keywords |-> {}]] }

\* PUT /api/messages/:id of debug_server.js
EditMessage ==
    /\ writes < MaxWrites
    /\ \E id \in store, body \in EditBodies :
        Acknowledge("edit",
                    [rows EXCEPT ![id].question_text = body.question,
                                 ![id].answer = body.answer],
                    TRUE)
    /\ UNCHANGED <<store, clock, search, lastQuery, validation, rankerRan,
                   rawResults, guarded, response, searches, ticks, lastEmbed,
                   feedbackWired, lastLoad, lastFeedback, trail, loads,
                   cosineVars,
                   restVars>>
    /\ UNCHANGED linkerVars

\* DELETE /api/messages/:id of debug_server.js, on the rows the search reads
SoftDelete ==
    /\ writes < MaxWrites
    /\ \E id \in store :
        Acknowledge("delete", [rows EXCEPT ![id].deleted_at = clock], TRUE)
    /\ UNCHANGED <<store, clock, search, lastQuery, validation, rankerRan,
                   rawResults, guarded, response, searches, ticks, lastEmbed,
                   feedbackWired, lastLoad, lastFeedback, trail, loads,
                   cosineVars,
                   restVars>>
    /\ UNCHANGED linkerVars

\* GET /api/rag-stats: one call of loadVectors()
Load ==
    /\ loads < MaxLoads
    /\ \E storeOutcome \in StoreOutcomes :
        \E loaded \in { loadVectors(vectorsCache, lastCacheUpdate, clock, store,
                                    rows, storeOutcome) } :
            /\ vectorsCache' = loaded.cache
            /\ lastCacheUpdate' = loaded.updated
            /\ lastLoad' =
                 [ called |-> TRUE,
                   reread |-> ~CacheFresh(vectorsCache, lastCacheUpdate, clock),
                   threw |-> loaded.threw,
                   outcome |-> IF CacheFresh(vectorsCache, lastCacheUpdate, clock)
                               THEN "cached" ELSE storeOutcome,
                   snapshot |-> loaded.vectors,
                   afterWrite |-> sinceLoad.write,
                   afterInvalidate |-> sinceLoad.invalidated,
                   purged |-> purged,
                   visible |-> CacheRows(store, rows),
                   before |-> vectorsCache,
                   age |-> clock - lastCacheUpdate ]
    /\ sinceLoad' = NothingSince
    /\ loads' = loads + 1
    /\ UNCHANGED <<store, clock, search, lastQuery, validation, rankerRan,
                   rawResults, guarded, response, searches, ticks, lastEmbed,
                   rows, feedbackWired, purged, lastFeedback, trail, writes,
                   cosineVars,
                   restVars>>
    /\ UNCHANGED linkerVars

\* ------------------------------------------------------------------------
\* The two cosineSimilarity functions on the same pair of vectors
\* ------------------------------------------------------------------------
MaxComponent == 5

\* vectors of two components whose norm is a whole number, the zero vector
\* among them
CosineVectors ==
    { v \in (-MaxComponent..MaxComponent) \X (-MaxComponent..MaxComponent) :
        ISqrt(Dot(v, v, 2)) * ISqrt(Dot(v, v, 2)) = Dot(v, v, 2) }

NoCosine == [computed |-> FALSE, linker |-> 0, ranker |-> 0]

CosineCompute ==
    /\ ~cosineOutput.computed
    /\ cosineOutput' =
         [ computed |-> TRUE,
           linker |-> cosineSimilarity(cosineInput.a, cosineInput.b),
           ranker |-> cosineSimilarityLocal(cosineInput.a, cosineInput.b) ]
    /\ UNCHANGED <<store, vectorsCache, lastCacheUpdate, clock, search, lastQuery,
                   validation, rankerRan, rawResults, guarded, response, searches,
                   ticks, lastEmbed, writeVars, cosineInput, restVars>>
    /\ UNCHANGED linkerVars

\* ------------------------------------------------------------------------
\* The ranker (searchLocal) followed by the guardrails (applyGuardrails)
\* on a cache of any content, as secureRAGSearch chains them
\* ------------------------------------------------------------------------
MaxRanked == 3

\* rows a cache can hold: answer lengths around the steps of the quality
\* score, with and without audio, vectors along and against the query
RankRow(vector, relevance, len, audio, ts) ==
    [ vector |-> vector, relevance_score |-> relevance,
      payload |-> [ question |-> qFour,
                    answer |-> [len |-> len, keywords |-> {kwFour}],
                    audio_path |-> audio, timestamp |-> ts,
                    feedback_score |-> NotVoted ] ]

RankCatalog ==
    << RankRow(<<3, 4>>, Pct(50), 500, NoAudio, NowStart - YEAR_MINUTES),
       RankRow(<<3, 4>>, Pct(50), 501, NoAudio, NowStart - YEAR_MINUTES),
       RankRow(<<3, 4>>, Pct(50), 200, "media/a1.ogg", NowStart - YEAR_MINUTES),
       RankRow(<<3, 4>>, Pct(50), 100, NoAudio, NoTimestamp),
       RankRow(<<3, 4>>, Pct(50), 50, "media/a1.ogg", NowStart - YEAR_MINUTES),
       RankRow(<<3, 4>>, Pct(50), 49, NoAudio, NowStart - 12 * YEAR_MINUTES),
       RankRow(<<5, 0>>, SCALE, 600, "media/a1.ogg", NowStart - YEAR_MINUTES),
       RankRow(<<-3, -4>>, Pct(50), 300, NoAudio, NowStart - YEAR_MINUTES),
       RankRow(<<5, 0>>, Pct(50), 1000, "media/a1.ogg", NowStart) >>

RankQueries == { qRavFour, <<"a", "b", "c", "d", "e">> }
RankVectors == { <<3, 4>>, <<5, 0>> }

\* the caches of at most MaxRanked rows; the id of a row is its position
RankCaches ==
    UNION { [1..n -> DOMAIN RankCatalog] : n \in 0..MaxRanked }

WithIds(picks) ==
    [ k \in 1..Len(picks) |->
        [ id |-> k, vector |-> RankCatalog[picks[k]].vector,
          payload |-> RankCatalog[picks[k]].payload,
          relevance_score |-> RankCatalog[picks[k]].relevance_score ] ]

NoRankInput == [query |-> Missing, queryVector |-> NoVec, vectors |-> << >>]
NoRankOutput == [done |-> FALSE, raw |-> << >>, confidences |-> << >>,
                 guarded |-> NoGuarded]

\* searchLocal(cleaned, limit * 2) and applyGuardrails(query, rawResults);
\* confidences are the values calculateConfidence gives for the raw results
RankApply ==
    /\ ~rankOutput.done
    /\ \E limit \in SearchLimits :
       \E raw \in { searchLocal(FilterQueryOf[rankInput.query].cleaned, limit * 2,
                                rankInput.queryVector, rankInput.vectors) } :
          rankOutput' =
              [ done |-> TRUE,
                raw |-> raw,
                confidences |-> [ k \in 1..Len(raw) |->
                                    calculateConfidence(raw[k], rankInput.query,
                                                        clock) ],
                guarded |-> applyGuardrails(rankInput.query, raw, clock) ]
    /\ UNCHANGED <<store, vectorsCache, lastCacheUpdate, clock, search, lastQuery,
                   validation, rankerRan, rawResults, guarded, response, searches,
                   ticks, lastEmbed, writeVars, cosineVars, rankInput, laterVars>>
    /\ UNCHANGED linkerVars

\* ------------------------------------------------------------------------
\* transcribe (transcribe_openai.js)
\* ------------------------------------------------------------------------
\* const tries = [{ model: 'gpt-4o-transcribe' }, { model: 'whisper-1' }]
tries == <<"gpt-4o-transcribe", "whisper-1">>

\* for (let attempt = 1; attempt <= 3; attempt++)
MaxAttempts == 3

\* let delay = 1200
DelayStart == 1200

\* what the provider can answer to a call: a language and a text, or an
\* error with a status and a message
Languages == {"fr", "he", "en"}
Heard == {"", "shalom"}
Translated == {"", "bonjour"}
Direct == {"", "salut"}
NoStatus == 0
NoError == [status |-> NoStatus, message |-> << >>]
ProviderErrors ==
    { [status |-> 429, message |-> <<"Too", "Many", "Requests">>],
      [status |-> NoStatus, message |-> <<"Rate", "limit", "reached">>],
      [status |-> 400, message |-> <<"You", "exceeded", "your", "Quota">>],
      [status |-> 500, message |-> <<"Connection", "error">>] }

LowerWord(w) ==
    CASE w = "Rate" -> "rate"
      [] w = "Quota" -> "quota"
      [] w = "Too" -> "too"
      [] w = "Many" -> "many"
      [] w = "Requests" -> "requests"
      [] w = "You" -> "you"
      [] w = "Connection" -> "connection"
      [] OTHER -> w

\* mutant: every error is taken for a rate limit
IsRateLimit_Any(e) == TRUE

\* e?.status === 429 || /rate limit|quota/i.test(msg)
IsRateLimit(e) ==
    \/ e.status = 429
    \/ \E k \in 1..Len(e.message) :
          \/ LowerWord(e.message[k]) = "quota"
          \/ /\ k < Len(e.message)
             /\ LowerWord(e.message[k]) = "rate"
             /\ LowerWord(e.message[k + 1]) = "limit"

NoTranscription ==
    [ pc |-> "idle", keepHebrew |-> FALSE, preferHebrew |-> FALSE, model |-> 0,
      attempt |-> 0, delay |-> 0, txt |-> "", returned |-> FALSE, result |-> "",
      log |-> << >> ]

TranscribeIdle == transcription = NoTranscription

LaterIdle == TranscribeIdle /\ handlers = << >> /\ incoming = << >>

TranscribeOthersUnchanged ==
    /\ UNCHANGED <<store, vectorsCache, lastCacheUpdate, clock, search, lastQuery,
                   validation, rankerRan, rawResults, guarded, response, searches,
                   ticks, lastEmbed, writeVars, cosineVars, rankVars,
                   ingestVars>>
    /\ UNCHANGED linkerVars

\* the start of an attempt with a model
Attempt(t, model, attempt, delay) ==
    [t EXCEPT !.pc = "detect", !.model = model, !.attempt = attempt,
              !.delay = delay, !.txt = "",
              !.log = Append(@, [model |-> model, attempt |-> attempt,
                                 error |-> NoError, slept |-> 0])]

\* return of transcribe
ReturnText(t, text) == [t EXCEPT !.pc = "done", !.returned = TRUE, !.result = text]

\* the next turn of for (const { model } of tries), return '' after the last
NextModel(t) ==
    IF t.model < Len(tries)
    THEN Attempt(t, t.model + 1, 1, DelayStart)
    ELSE ReturnText(t, "")

\* catch (e): SLEEP(delay) on a rate limit, break otherwise
Catch(t, e) ==
    IF IsRateLimit(e)
    THEN [t EXCEPT !.pc = "sleep",
                   !.log[Len(t.log)] = [@ EXCEPT !.error = e, !.slept = t.delay]]
    ELSE NextModel([t EXCEPT !.log[Len(t.log)] = [@ EXCEPT !.error = e]])

\* transcribe(filePath, questionHint) is called
TranscribeCall ==
    /\ transcription.pc = "idle"
    /\ transcription' = Attempt(transcription, 1, 1, DelayStart)
    /\ TranscribeOthersUnchanged

\* transcribeOnce(verbose) resolves with a language and a text
DetectReturns ==
    /\ transcription.pc = "detect"
    /\ \E lang \in Languages, txt \in Heard :
          transcription' =
              IF transcription.keepHebrew
                 /\ (lang = "he" \/ transcription.preferHebrew)
              THEN ReturnText(transcription, txt)
              ELSE IF lang = "fr"
              THEN ReturnText(transcription, txt)
              ELSE IF txt = ""
              THEN [transcription EXCEPT !.pc = "direct", !.txt = txt]
              ELSE [transcription EXCEPT !.pc = "translate", !.txt = txt]
    /\ TranscribeOthersUnchanged

\* toFrench(txt) resolves
TranslateReturns ==
    /\ transcription.pc = "translate"
    /\ \E fr \in Translated :
          transcription' =
              IF fr # ""
              THEN ReturnText(transcription, fr)
              ELSE [transcription EXCEPT !.pc = "direct"]
    /\ TranscribeOthersUnchanged

\* transcribeOnce(language: 'fr') resolves
DirectReturns ==
    /\ transcription.pc = "direct"
    /\ \E fr2 \in Direct : transcription' = ReturnText(transcription, fr2)
    /\ TranscribeOthersUnchanged

\* one of the three calls of the try block rejects
ProviderFails ==
    /\ transcription.pc \in {"detect", "translate", "direct"}
    /\ \E e \in ProviderErrors : transcription' = Catch(transcription, e)
    /\ TranscribeOthersUnchanged

\* SLEEP(delay) resolves; delay *= 2; continue
SleepEnds ==
    /\ transcription.pc = "sleep"
    /\ transcription' =
          IF transcription.attempt + 1 <= MaxAttempts
          THEN Attempt(transcription, transcription.model,
                       transcription.attempt + 1, transcription.delay * 2)
          ELSE NextModel([transcription EXCEPT !.delay = @ * 2])
    /\ TranscribeOthersUnchanged

\* ------------------------------------------------------------------------
\* processMessage on a voice message (message_processor.js), as called by
\* the live handler client.on('message') and by catchUpFromDate (bot.js).
\* Every await of the function ends one step.  Row ids and WhatsApp message
\* ids are one id space here.
\* ------------------------------------------------------------------------
Handlers == {"live", "catchUp"}

\* findCandidateQuestions(groupName, tsSec, 6, 50)
AUTO_WINDOW_H == 6
AUTO_LIMIT == 50
\* best.score >= 0.15, conf = 0.05 of the fallback
AUTO_MIN_SCORE == Pct(15)
AUTO_FALLBACK_CONF == Pct(5)

\* hours between the timestamp of the message and its processing
\* (Date.now() of autoLinkAnswer): at once, or after the window has passed
Lags == {0, AUTO_WINDOW_H + 1}

\* catalog entries the questions of the store are taken from
IngestQuestions == {1, 2, 4}

\* what the embedding provider and the verifier answer during ingestion
IngestEmbeds == {EmbedFail, "v34"}
IngestVerdicts == {VerifyFail, Pct(150)}

\* the Torah version processEntry can give back
TorahTexts == {NoText, "tBougie"}

\* a.toLowerCase().split(/\W+/).filter(Boolean): every run of ASCII word
\* characters; Hebrew letters are not word characters
Tokens(t) ==
    CASE t = "qBougie" -> {"on", "allumer", "bougie", "chabbat"}
      [] t = "qLait"   -> {"lait", "et", "viande", "attente"}
      [] t = "aBougie" -> {"la", "bougie", "chabbat", "avant", "le", "coucher"}
      [] t = "tBougie" -> {"allumer", "la", "bougie", "avant", "chabbat"}
      [] OTHER         -> {}

\* the row of a message that is not in the store
AbsentRow ==
    [AnswerRow(NoText, NoText, NoId) EXCEPT !.group_name = "none", !.ts = 0]

IdleHandler ==
    [ pc |-> "idle", raw |-> NoText, repliedToId |-> NoId,
      question_text |-> NoText, candidates |-> << >>,
      versionTorah |-> NoText ]

IngestOthersUnchanged ==
    /\ UNCHANGED <<run, returned, observed, embedMemo, verifyMemo, runsDone,
                   previous, cleanRuns, deletes>>
    /\ UNCHANGED <<store, vectorsCache, lastCacheUpdate, clock, search, lastQuery,
                   validation, rankerRan, rawResults, guarded, response, searches,
                   ticks, lastEmbed, writeVars, cosineVars, rankVars,
                   transcribeVars, incoming>>

\* DB.upsert of the voice message: the fields of the message are written,
\* the transcript and the link of a row that exists are kept
Upsert(msgs, question_text, repliedToId) ==
    IF msgs[AnswerId] = AbsentRow
    THEN [msgs EXCEPT ![AnswerId] = AnswerRow(NoText, question_text, repliedToId)]
    ELSE [msgs EXCEPT ![AnswerId].question_text = question_text,
                      ![AnswerId].replied_to_message_id = repliedToId]

\* the arguments processMessage gives to enhancedMatchAnswerToQuestion
MatchArgs(h) ==
    [ groupName |-> "G1", audioWAId |-> AnswerId, answerText |-> h.raw,
      answerSender |-> "rav", answerTsSec |-> AnswerTs,
      repliedToMessageId |-> h.repliedToId,
      questionTextHint |-> h.question_text ]

\* the entry of enhancedMatchAnswerToQuestion up to its first await:
\* reply hard-link, no candidate, or the scoring is in flight
EnterLinker(h, msgs) ==
    LET candidates == SelectCandidates(msgs, "G1", AnswerTs)
    IN  IF h.repliedToId # NoId
        THEN [ handler |-> [h EXCEPT !.pc = "processEntry"],
               messages |-> UpdateLink(msgs, AnswerId, h.repliedToId,
                                       REPLY_HARDLINK, "reply") ]
        ELSE IF Len(candidates) = 0
        THEN [ handler |-> [h EXCEPT !.pc = "processEntry"],
               messages |-> msgs ]
        ELSE [ handler |-> [h EXCEPT !.pc = "linking",
                                     !.candidates = candidates],
               messages |-> msgs ]

\* client.on('message') or catchUpFromDate calls processMessage(msg);
\* await msg.getChat(), await msg.downloadMedia()
Receive(h) ==
    /\ handlers[h].pc = "idle"
    /\ handlers' = [handlers EXCEPT ![h].pc = "download"]
    /\ UNCHANGED messages
    /\ IngestOthersUnchanged

\* the media arrives (or does not): quoted message, DB.upsert, DB.findByWA,
\* then the transcript of the row or the call of transcribe; every question
\* of the store is older than the 30 minutes of findRecentQuestion
Downloaded(h) ==
    /\ handlers[h].pc = "download"
    /\ \E media \in BOOLEAN :
          IF ~media
          THEN /\ handlers' = [handlers EXCEPT ![h].pc = "done"]
               /\ UNCHANGED messages
          ELSE LET repliedToId == incoming.quoted
                   question_text == IF incoming.quoted # NoId
                                    THEN messages[incoming.quoted].question_text
                                    ELSE NoText
                   saved == Upsert(messages, question_text, repliedToId)
                   mine == [handlers[h] EXCEPT !.repliedToId = repliedToId,
                                               !.question_text = question_text]
               IN  IF saved[AnswerId].transcript_raw # NoText
                   THEN LET entered ==
                                EnterLinker([mine EXCEPT !.raw =
                                                saved[AnswerId].transcript_raw],
                                            saved)
                        IN  /\ handlers' = [handlers EXCEPT ![h] = entered.handler]
                            /\ messages' = entered.messages
                   ELSE /\ handlers' = [handlers EXCEPT ![h] =
                                           [mine EXCEPT !.pc = "transcribe"]]
                        /\ messages' = saved
    /\ IngestOthersUnchanged

\* transcribe returns: if (!raw) return; DB.updateTranscript; the linker
Transcribed(h) ==
    /\ handlers[h].pc = "transcribe"
    /\ \E raw \in {NoText, incoming.heard} :
          IF raw = NoText
          THEN /\ handlers' = [handlers EXCEPT ![h].pc = "done"]
               /\ UNCHANGED messages
          ELSE LET entered ==
                       EnterLinker([handlers[h] EXCEPT !.raw = raw],
                                   [messages EXCEPT ![AnswerId].transcript_raw = raw])
               IN  /\ handlers' = [handlers EXCEPT ![h] = entered.handler]
                   /\ messages' = entered.messages
    /\ IngestOthersUnchanged

\* steps 3 and 4 of the linker over the candidates of the handler
RECURSIVE ScoreAll(_, _, _, _, _, _)
ScoreAll(candidates, args, answerEmbedding, asked, i, bestMatch) ==
    IF i > Len(candidates) THEN bestMatch
    ELSE LET candidate == candidates[i]
             questionEmbedding ==
                 IF candidate.q_embed # NoEmbed THEN JSONparse(candidate.q_embed)
                 ELSE VectorOf(asked[i])
         IN  ScoreAll(candidates, args, answerEmbedding, asked, i + 1,
                      BestAfter(bestMatch, candidate,
                                CandidateScore(candidate, args, answerEmbedding,
                                               questionEmbedding)))

\* steps 6 and 7 of the linker, as a decision
Verdict(best, finalScore, aiVerification) ==
    IF finalScore < THRESHOLD_ACCEPT
    THEN Decision(NoId, finalScore, "low-score")
    ELSE Decision(best.id, finalScore,
                  IF aiVerification THEN "ai-enhanced" ELSE "algorithm")

\* the embeddings the providers gave, stored in a_embed and q_embed
StoreEmbeddings(msgs, candidates, answered, asked) ==
    [m \in MsgIds |->
        IF m = AnswerId /\ answered # EmbedFail
        THEN [msgs[m] EXCEPT !.a_embed = JSONstringify(VectorOf(answered))]
        ELSE IF \E i \in 1..Len(candidates) :
                   /\ candidates[i].id = m
                   /\ candidates[i].q_embed = NoEmbed
                   /\ asked[i] # EmbedFail
        THEN [msgs[m] EXCEPT !.q_embed =
                 JSONstringify(VectorOf(asked[
                     CHOOSE i \in 1..Len(candidates) : candidates[i].id = m]))]
        ELSE msgs[m]]

\* the scoring of the linker ends: the providers have answered, the link
\* is written and enhancedMatchAnswerToQuestion returns
LinkFinished(h) ==
    /\ handlers[h].pc = "linking"
    /\ \E answered \in IngestEmbeds,
          asked \in [1..Len(handlers[h].candidates) -> IngestEmbeds],
          verified \in IngestVerdicts :
        \E best \in { ScoreAll(handlers[h].candidates, MatchArgs(handlers[h]),
                               VectorOf(answered), asked, 1,
                               [id |-> NoId, score |-> 0,
                                question_text |-> NoText]) } :
        \E d \in { IF best.id = NoId
                    THEN Decision(NoId, 0, "no-valid-match")
                    ELSE IF VERIFY_WITH_GPT /\ best.score > VERIFY_MIN_SCORE
                    THEN Verdict(best, Blend(best.score, verifyWithAI(verified)),
                                 TRUE)
                    ELSE Verdict(best, best.score, FALSE) } :
          /\ handlers' = [handlers EXCEPT ![h].pc = "processEntry",
                                          ![h].candidates = << >>]
          /\ messages' =
                LET embedded == StoreEmbeddings(messages, handlers[h].candidates,
                                                answered, asked)
                IN  IF d.method = "no-valid-match" THEN embedded
                    ELSE UpdateLink(embedded, AnswerId, d.qid, d.confidence,
                                    d.method)
    /\ IngestOthersUnchanged

\* processEntry resolves with a Torah version or rejects;
\* DB.updateProcessedEntry, then the awaits of firebaseSync
Processed(h) ==
    /\ handlers[h].pc = "processEntry"
    /\ \/ \E versionTorah \in TorahTexts :
             handlers' = [handlers EXCEPT ![h].pc = "autoLink",
                                          ![h].versionTorah = versionTorah]
       \/ handlers' = [handlers EXCEPT ![h].pc = "done"]
    /\ UNCHANGED messages
    /\ IngestOthersUnchanged

\* findCandidateQuestions: no condition on deleted_at or on the row itself
findCandidateQuestions(msgs, groupName, tsSec, windowHours, limit) ==
    Take(OrderByTsDesc(msgs,
             {m \in MsgIds : /\ msgs[m].group_name = groupName
                             /\ msgs[m].question_text # NoText
                             /\ msgs[m].ts <= tsSec
                             /\ msgs[m].ts >= tsSec - windowHours}),
         limit)

\* inter / Math.max(3, Math.min(ta.size, tb.size))
simpleSimilarity(a, b) ==
    IF a = NoText \/ b = NoText THEN 0
    ELSE (Cardinality(Tokens(a) \cap Tokens(b)) * SCALE)
            \div Max(3, Min(Cardinality(Tokens(a)), Cardinality(Tokens(b))))

\* if (!best || s > best.score) best = { id, score }
RECURSIVE pickBestQuestion(_, _, _, _, _)
pickBestQuestion(msgs, candidates, answerText, i, best) ==
    IF i > Len(candidates) THEN best
    ELSE LET s == simpleSimilarity(msgs[candidates[i]].question_text, answerText)
         IN  pickBestQuestion(msgs, candidates, answerText, i + 1,
                              IF best.id = NoId \/ s > best.score
                              THEN [id |-> candidates[i], score |-> s]
                              ELSE best)

\* autoLinkAnswer(waId, groupName, versionTorah || raw || ''):
\* UPDATE messages SET link_question_id = COALESCE(?, link_question_id),
\* link_confidence = COALESCE(?, link_confidence); link_method is not set
autoLinkAnswer(msgs, answerText, now) ==
    LET candidates == findCandidateQuestions(msgs, "G1", now, AUTO_WINDOW_H,
                                             AUTO_LIMIT)
        best == pickBestQuestion(msgs, candidates, answerText, 1,
                                 [id |-> NoId, score |-> 0])
    IN  IF Len(candidates) = 0 THEN msgs
        ELSE IF best.score >= AUTO_MIN_SCORE
        THEN [msgs EXCEPT ![AnswerId].link_question_id = best.id,
                          ![AnswerId].link_confidence = ToFixed3(best.score)]
        ELSE [msgs EXCEPT ![AnswerId].link_question_id = candidates[1],
                          ![AnswerId].link_confidence = AUTO_FALLBACK_CONF]

\* step 6 of processMessage
AutoLink(h) ==
    /\ handlers[h].pc = "autoLink"
    /\ handlers' = [handlers EXCEPT ![h].pc = "done"]
    /\ messages' = autoLinkAnswer(messages,
                                  IF handlers[h].versionTorah # NoText
                                  THEN handlers[h].versionTorah
                                  ELSE handlers[h].raw,
                                  AnswerTs + incoming.lag)
    /\ IngestOthersUnchanged

\* ------------------------------------------------------------------------
\* The specifications
\* ------------------------------------------------------------------------
WriteIdle ==
    /\ rows = InitialRows
    /\ feedbackWired = FALSE
    /\ sinceLoad = NothingSince
    /\ purged = {}
    /\ lastLoad = NoLoad
    /\ lastFeedback = NoFeedback
    /\ trail = InitialTrail
    /\ writes = 0
    /\ loads = 0

RankIdle ==
    /\ rankInput = NoRankInput
    /\ rankOutput = NoRankOutput

RestIdle == RankIdle /\ LaterIdle

CosineIdle ==
    /\ cosineInput = [a |-> <<0, 0>>, b |-> <<0, 0>>]
    /\ cosineOutput = NoCosine

SearchIdle ==
    /\ store = {}
    /\ vectorsCache = NoCache
    /\ lastCacheUpdate = 0
    /\ clock = NowStart
    /\ search = IdleSearch
    /\ lastQuery = Missing
    /\ validation = NoValidation
    /\ rankerRan = FALSE
    /\ rawResults = << >>
    /\ guarded = NoGuarded
    /\ response = NoResponse
    /\ searches = 0
    /\ ticks = 0
    /\ lastEmbed = Unasked
    /\ WriteIdle
    /\ CosineIdle
    /\ RestIdle

LinkerIdle ==
    /\ messages = << >>
    /\ run = IdleRun
    /\ returned = NoDecision
    /\ observed = NoObservation
    /\ embedMemo = << >>
    /\ verifyMemo = << >>
    /\ runsDone = 0
    /\ previous = NoDecision
    /\ cleanRuns = 0
    /\ deletes = 0

LinkerInit ==
    /\ \E qs \in [QuestionIds -> DOMAIN QuestionCatalog],
          text \in AnswerTexts,
          hint \in {NoText, "qBougie"},
          repliedTo \in {NoId, 1, ExternalId} :
        /\ \A i, j \in QuestionIds : i <= j => qs[i] <= qs[j]
        /\ messages = [m \in MsgIds |->
                      IF m \in QuestionIds THEN QuestionRow(QuestionCatalog[qs[m]])
                      ELSE AnswerRow(text, hint, repliedTo)]
    /\ run = IdleRun
    /\ returned = NoDecision
    /\ observed = NoObservation
    /\ embedMemo = [t \in Texts |-> Unasked]
    /\ verifyMemo = [k \in QuestionTexts \X AnswerTexts |-> VerifyUnasked]
    /\ runsDone = 0
    /\ previous = NoDecision
    /\ cleanRuns = 0
    /\ deletes = 0
    /\ SearchIdle

LinkerNext ==
    \/ LinkStart
    \/ LinkEmbedAnswer
    \/ LinkScoreStored
    \/ LinkScoreEmbed
    \/ LinkSelect
    \/ LinkVerify
    \/ DeleteMessage

SearchInit ==
    /\ store \in { ids \in SUBSET EntryIds : Cardinality(ids) <= MaxEntries }
    /\ vectorsCache = NoCache
    /\ lastCacheUpdate = 0
    /\ clock = NowStart
    /\ search = IdleSearch
    /\ lastQuery = Missing
    /\ validation = NoValidation
    /\ rankerRan = FALSE
    /\ rawResults = << >>
    /\ guarded = NoGuarded
    /\ response = NoResponse
    /\ searches = 0
    /\ ticks = 0
    /\ lastEmbed = Unasked
    /\ WriteIdle
    /\ CosineIdle
    /\ RestIdle
    /\ LinkerIdle

SearchNext ==
    \/ SearchStart
    \/ SearchEmbedded
    \/ Tick

vars == <<linkerVars, searchVars>>

LinkerSpec == LinkerInit /\ [][LinkerNext]_vars

SearchSpec == SearchInit /\ [][SearchNext]_vars

CacheInit ==
    /\ store \in { ids \in SUBSET EntryIds : Cardinality(ids) <= MaxEntries }
    /\ feedbackWired \in BOOLEAN
    /\ vectorsCache = NoCache
    /\ lastCacheUpdate = 0
    /\ clock = NowStart
    /\ search = IdleSearch
    /\ lastQuery = Missing
    /\ validation = NoValidation
    /\ rankerRan = FALSE
    /\ rawResults = << >>
    /\ guarded = NoGuarded
    /\ response = NoResponse
    /\ searches = 0
    /\ ticks = 0
    /\ lastEmbed = Unasked
    /\ rows = InitialRows
    /\ sinceLoad = NothingSince
    /\ purged = {}
    /\ lastLoad = NoLoad
    /\ lastFeedback = NoFeedback
    /\ trail = InitialTrail
    /\ writes = 0
    /\ loads = 0
    /\ CosineIdle
    /\ RestIdle
    /\ LinkerIdle

CacheNext ==
    \/ SubmitFeedback
    \/ PostFeedback
    \/ EditMessage
    \/ SoftDelete
    \/ Load
    \/ Tick

CacheSpec == CacheInit /\ [][CacheNext]_vars

CosineInit ==
    /\ cosineInput \in { [a |-> a, b |-> b] : a \in CosineVectors, b \in CosineVectors }
    /\ cosineOutput = NoCosine
    /\ store = {}
    /\ vectorsCache = NoCache
    /\ lastCacheUpdate = 0
    /\ clock = NowStart
    /\ search = IdleSearch
    /\ lastQuery = Missing
    /\ validation = NoValidation
    /\ rankerRan = FALSE
    /\ rawResults = << >>
    /\ guarded = NoGuarded
    /\ response = NoResponse
    /\ searches = 0
    /\ ticks = 0
    /\ lastEmbed = Unasked
    /\ WriteIdle
    /\ RestIdle
    /\ LinkerIdle

CosineNext == CosineCompute

CosineSpec == CosineInit /\ [][CosineNext]_vars

RankInit ==
    /\ rankInput \in { [query |-> q, queryVector |-> v, vectors |-> WithIds(c)] :
                          q \in RankQueries, v \in RankVectors, c \in RankCaches }
    /\ rankOutput = NoRankOutput
    /\ store = {}
    /\ vectorsCache = NoCache
    /\ lastCacheUpdate = 0
    /\ clock = NowStart
    /\ search = IdleSearch
    /\ lastQuery = Missing
    /\ validation = NoValidation
    /\ rankerRan = FALSE
    /\ rawResults = << >>
    /\ guarded = NoGuarded
    /\ response = NoResponse
    /\ searches = 0
    /\ ticks = 0
    /\ lastEmbed = Unasked
    /\ WriteIdle
    /\ CosineIdle
    /\ LaterIdle
    /\ LinkerIdle

RankNext == RankApply

RankSpec == RankInit /\ [][RankNext]_vars

TranscribeInit ==
    /\ transcription \in { [NoTranscription EXCEPT !.keepHebrew = k,
                                                    !.preferHebrew = h] :
                              k \in BOOLEAN, h \in BOOLEAN }
    /\ store = {}
    /\ vectorsCache = NoCache
    /\ lastCacheUpdate = 0
    /\ clock = NowStart
    /\ search = IdleSearch
    /\ lastQuery = Missing
    /\ validation = NoValidation
    /\ rankerRan = FALSE
    /\ rawResults = << >>
    /\ guarded = NoGuarded
    /\ response = NoResponse
    /\ searches = 0
    /\ ticks = 0
    /\ lastEmbed = Unasked
    /\ WriteIdle
    /\ CosineIdle
    /\ RankIdle
    /\ handlers = << >>
    /\ incoming = << >>
    /\ LinkerIdle

TranscribeNext ==
    \/ TranscribeCall
    \/ DetectReturns
    \/ TranslateReturns
    \/ DirectReturns
    \/ ProviderFails
    \/ SleepEnds

TranscribeSpec == TranscribeInit /\ [][TranscribeNext]_vars

IngestInit ==
    /\ \E qs \in [QuestionIds -> IngestQuestions] :
        /\ \A i, j \in QuestionIds : i <= j => qs[i] <= qs[j]
        /\ messages = [m \in MsgIds |->
                      IF m \in QuestionIds THEN QuestionRow(QuestionCatalog[qs[m]])
                      ELSE AbsentRow]
    /\ incoming \in { [quoted |-> q, heard |-> t, lag |-> l] :
                         q \in {NoId, 1}, t \in AnswerTexts, l \in Lags }
    /\ handlers = [h \in Handlers |-> IdleHandler]
    /\ run = IdleRun
    /\ returned = NoDecision
    /\ observed = NoObservation
    /\ embedMemo = << >>
    /\ verifyMemo = << >>
    /\ runsDone = 0
    /\ previous = NoDecision
    /\ cleanRuns = 0
    /\ deletes = 0
    /\ store = {}
    /\ vectorsCache = NoCache
    /\ lastCacheUpdate = 0
    /\ clock = NowStart
    /\ search = IdleSearch
    /\ lastQuery = Missing
    /\ validation = NoValidation
    /\ rankerRan = FALSE
    /\ rawResults = << >>
    /\ guarded = NoGuarded
    /\ response = NoResponse
    /\ searches = 0
    /\ ticks = 0
    /\ lastEmbed = Unasked
    /\ WriteIdle
    /\ CosineIdle
    /\ RankIdle
    /\ TranscribeIdle

IngestNext ==
    \E h \in Handlers :
        \/ Receive(h)
        \/ Downloaded(h)
        \/ Transcribed(h)
        \/ LinkFinished(h)
        \/ Processed(h)
        \/ AutoLink(h)

IngestSpec == IngestInit /\ [][IngestNext]_vars

\* every call to the provider and every SLEEP resolves or rejects
TranscribeLive == TranscribeSpec /\ WF_vars(TranscribeNext)

\* ------------------------------------------------------------------------
\* Properties of the search (SearchSpec)
\* ------------------------------------------------------------------------
SearchFinished == searches > 0

\* the last finished search passed input validation and went through
\* searchLocal and applyGuardrails
Accepted == SearchFinished /\ validation.valid /\ rankerRan

\* the rejection reason and the warning that a response carries
ReasonOf(resp) ==
    IF "message" \in DOMAIN resp THEN resp.message
    ELSE IF "error" \in DOMAIN resp THEN resp.error
    ELSE NoReason
WarningOf(resp) ==
    IF "warning" \in DOMAIN resp THEN resp.warning ELSE NoReason

\* the candidates of rawResults that pass the per-candidate exclusion as
\* the specification states it
Survives(r) ==
    /\ r.score >= Pct(35)
    /\ (r.answer.len >= 30 \/ r.audio_path # NoAudio)
Survivors(results) == { k \in 1..Len(results) : Survives(results[k]) }
IdsOf(results) == { results[k].id : k \in 1..Len(results) }

\* C6: when the guardrail pipeline reports success, at least one candidate
\* survived the per-candidate exclusion; with zero survivors the query is
\* rejected with success = false and the noResults reason.
C6_SuccessHasSurvivor ==
    Accepted =>
        /\ guarded.success => Len(guarded.results) >= 1
        /\ Survivors(rawResults) = {} =>
              ~guarded.success /\ guarded.message = REJECTION_noResults

\* C7: when the store holds no row, the search of a query that passes input
\* validation returns success = false with the noResults reason and an
\* empty result list.
C7_EmptyStoreNoResults ==
    (Accepted /\ store = {}) =>
        /\ response.success = FALSE
        /\ response.results = << >>
        /\ ReasonOf(response) = REJECTION_noResults

\* C8: for an accepted query, a candidate is among the results of
\* applyGuardrails exactly when its vector score is at least 0.35 and its
\* answer has at least 30 characters or an audio.
C8_ShownIffSurvives ==
    (Accepted /\ guarded.success) =>
        \A k \in 1..Len(rawResults) :
            rawResults[k].id \in IdsOf(guarded.results) <=> Survives(rawResults[k])

C8_Witness ==
    /\ Accepted /\ guarded.success
    /\ \E k \in 1..Len(rawResults) :
          /\ rawResults[k].id \in IdsOf(guarded.results)
          /\ rawResults[k].answer.len < 30
          /\ rawResults[k].audio_path # NoAudio
    /\ \E k \in 1..Len(rawResults) : rawResults[k].id \notin IdsOf(guarded.results)

\* C9: when a query is not rejected and the best vector score among the
\* returned results is below 0.5, the lowConfidence warning is attached:
\* applyGuardrails sets it, or the response of the search carries it.
C9_LowConfidenceWarning ==
    (Accepted /\ response.success /\ Len(response.results) >= 1) =>
        LET returnedResults == Take(guarded.results, Len(response.results))
        IN  MaxScore(returnedResults) < Pct(50) =>
                \/ WarningOf(response) = REJECTION_lowConfidence
                \/ guarded.warning = REJECTION_lowConfidence

OutsideDomain(query) ==
    /\ query # Missing
    /\ Len(trim(query)) >= 5
    /\ Len(CollapseSpaces(trim(query))) >= 5
    /\ ~SPAM_PATTERNS(query)
    /\ \A kw \in HALAKHIC_KEYWORDS : ~Includes(toLowerCase(query), kw)

\* C11: a query that passes the length and spam checks and holds no domain
\* keyword is valid with the domain flag false and confidence 0.5, is never
\* rejected as off-topic, and its surviving candidates are returned.
C11_OutsideDomainNotRejected ==
    (SearchFinished /\ OutsideDomain(lastQuery)) =>
        /\ validation.valid
        /\ ~validation.isHalakhic
        /\ validation.confidence = Pct(50)
        /\ rankerRan
        /\ guarded.message # REJECTION_offTopic
        /\ Survivors(rawResults) # {} =>
              /\ guarded.success
              /\ IdsOf(guarded.results) =
                    { rawResults[k].id : k \in Survivors(rawResults) }
              /\ response.success
              /\ Len(response.results) >= 1

C11_Witness ==
    /\ SearchFinished
    /\ OutsideDomain(lastQuery)
    /\ Survivors(rawResults) # {}
    /\ response.success
    /\ Len(response.results) >= 1


\* ------------------------------------------------------------------------
\* Claims about the feedback loop and the cache (CacheSpec)
\* ------------------------------------------------------------------------

\* the score the row holds before a vote: 0.5 when none was ever stored
StoredOrDefault(x) == IF x = NoRelevance THEN Pct(50) ELSE x

\* C12: a vote b on an entry sets its relevance score to
\* (old * count + b) / (count + 1) and its feedback count to count + 1,
\* where old and count are the values the row held before the vote
\* (0.5 and 0 for an entry never voted on).
C12_RunningMean ==
    lastFeedback.id # NoId =>
        /\ lastFeedback.after.feedback_count = lastFeedback.before.feedback_count + 1
        /\ lastFeedback.after.relevance_score =
             ( StoredOrDefault(lastFeedback.before.relevance_score)
                   * lastFeedback.before.feedback_count
               + (IF lastFeedback.isRelevant THEN SCALE ELSE 0) )
             \div (lastFeedback.before.feedback_count + 1)

AllRelevant(votes) == \A i \in 1..Len(votes) : votes[i]

\* C13: on an entry that starts at relevance 0.5 with no feedback, after any
\* number of consecutive relevant votes the stored scores never decrease
\* from one vote to the next and every one of them lies in [0, 1].
C13_RelevantVotesNonDecreasing ==
    \A id \in EntryIds :
        (trail[id].fresh /\ AllRelevant(trail[id].votes)) =>
            /\ \A i \in 1..(Len(trail[id].scores) - 1) :
                 trail[id].scores[i] <= trail[id].scores[i + 1]
            /\ \A i \in 1..Len(trail[id].scores) :
                 trail[id].scores[i] >= 0 /\ trail[id].scores[i] <= SCALE

C13_Witness ==
    \E id \in EntryIds :
        /\ trail[id].fresh
        /\ Len(trail[id].votes) >= 2
        /\ AllRelevant(trail[id].votes)
        /\ rows[id].feedback_count = Len(trail[id].votes)

\* C14: every acknowledged write (feedback, edit, soft-delete) has
\* invalidated the vector cache before its acknowledgement, so the cache is
\* empty once the write is acknowledged and the first loadVectors() after
\* it re-reads the store and returns what the store then holds.
C14_WriteInvalidatesBeforeAck ==
    /\ sinceLoad.write # NoWrite => ~vectorsCache.loaded
    /\ (lastLoad.called /\ lastLoad.afterWrite # NoWrite
            /\ lastLoad.outcome \in {"ok", "cached"}) =>
          /\ lastLoad.reread
          /\ lastLoad.snapshot = lastLoad.visible

\* C15: when the store cannot be opened or read while the cache is rebuilt,
\* loadVectors() returns an empty cache and raises nothing.
C15_UnreadableStoreEmptyCache ==
    (lastLoad.called /\ lastLoad.outcome \in {"openFails", "readFails"}) =>
        /\ ~lastLoad.threw
        /\ lastLoad.snapshot = << >>
        /\ vectorsCache = Cached(<< >>)

\* C16: the first loadVectors() after invalidateCache() re-reads the store
\* whatever the age of the snapshot, and no snapshot that loadVectors()
\* returns after an invalidateCache() holds an entry that was soft-deleted
\* before that call.
C16_InvalidateForcesReread ==
    lastLoad.called =>
        /\ lastLoad.afterInvalidate => lastLoad.reread
        /\ ~lastLoad.threw => IdsOf(lastLoad.snapshot) \cap lastLoad.purged = {}

C16_Witness ==
    /\ loads = 2
    /\ ticks = 0
    /\ lastLoad.afterInvalidate
    /\ lastLoad.reread
    /\ lastLoad.outcome = "ok"
    /\ lastLoad.purged # {}
    /\ Len(lastLoad.snapshot) >= 1

\* C17: when the embedding provider fails, the search still ranks the
\* cached candidates (by keyword overlap): with at least one row in the
\* cache, the ranker returns at least one candidate.
C17_EmbeddingFailureKeepsCandidates ==
    (Accepted /\ lastEmbed = EmbedFail /\ vectorsCache.loaded
        /\ Len(vectorsCache.rows) >= 1) =>
            Len(rawResults) >= 1

\* ------------------------------------------------------------------------
\* Claim about the cosine functions (CosineSpec)
\* ------------------------------------------------------------------------
ZeroNorm(v) == Dot(v, v, Len(v)) = 0

\* C18: the cosine of the search ranker and the cosine of the linker both
\* return 0, and never NaN, when one of the two vectors has zero norm, and
\* 1.0 for a vector of non-zero norm taken with itself.
C18_CosineZeroNormAndSelf ==
    cosineOutput.computed =>
        /\ (ZeroNorm(cosineInput.a) \/ ZeroNorm(cosineInput.b)) =>
              /\ cosineOutput.linker = 0
              /\ cosineOutput.ranker = 0
        /\ (cosineInput.a = cosineInput.b /\ ~ZeroNorm(cosineInput.a)) =>
              /\ cosineOutput.linker = SCALE
              /\ cosineOutput.ranker = SCALE

\* ------------------------------------------------------------------------
\* Claims about the choice of the candidate and the verifier (LinkerSpec)
\* ------------------------------------------------------------------------
ScoredSelected ==
    { k \in 1..Len(observed.scored) : observed.scored[k].id = observed.selected }

\* C19: in a run that is not a reply and whose best algorithmic score is s,
\* the verifier is called exactly when s > 0.3; when it is called and
\* returns a score v of [0, 1] the decision is taken on 0.7 s + 0.3 v; when
\* s <= 0.3 the verifier is not called and the decision is taken on s.
C19_VerifierGateAndBlend ==
    (Finished /\ ~observed.reply /\ observed.selected # NoId) =>
        /\ observed.verifierCalled <=> observed.algoScore > Pct(30)
        /\ (observed.verifierCalled /\ observed.verifierReturned >= 0
                /\ observed.verifierReturned <= SCALE) =>
              observed.finalScore =
                  Weighted(7, observed.algoScore)
                  + Weighted(3, observed.verifierReturned)
        /\ ~observed.verifierCalled => observed.finalScore = observed.algoScore

\* C20: the candidate carried into verification and acceptance has the
\* highest score of all the candidates scored in the run, and among the
\* candidates of that score it has the most recent timestamp.
C20_BestIsMaxMostRecent ==
    (Finished /\ ~observed.reply /\ observed.selected # NoId) =>
        /\ ScoredSelected # {}
        /\ \A s \in ScoredSelected, k \in 1..Len(observed.scored) :
              /\ observed.scored[s].score = observed.algoScore
              /\ observed.scored[k].score <= observed.algoScore
              /\ observed.scored[k].score = observed.algoScore =>
                    observed.scored[k].ts <= observed.scored[s].ts

C20_Witness ==
    /\ Finished
    /\ ~observed.reply
    /\ observed.selected # NoId
    /\ \E k \in 1..Len(observed.scored) :
          /\ observed.scored[k].id # observed.selected
          /\ observed.scored[k].score = observed.algoScore
          /\ \A s \in ScoredSelected : observed.scored[k].ts < observed.scored[s].ts

\* the entries a run that starts now may link to: question text, same
\* group, inside the 72 h window before the answer, not deleted when the
\* run read its candidates
Linkable(m, deletedThen) ==
    /\ messages[m].question_text # NoText
    /\ messages[m].group_name = Answer.group_name
    /\ messages[m].ts <= Answer.ts
    /\ Answer.ts - messages[m].ts <= 72
    /\ m \notin deletedThen

C29_NeverLinksToItself ==
    Finished =>
        /\ returned.qid # AnswerId
        /\ Answer.link_question_id # AnswerId

\* C22: loadVectors() reads the store exactly when there is no snapshot or
\* the snapshot is 5 minutes old or older; with a snapshot younger than 5
\* minutes it returns that snapshot unchanged, and it never returns a
\* snapshot that is 5 minutes old or older.
C22_ReadsStoreIffStale ==
    lastLoad.called =>
        /\ lastLoad.reread <=> (~lastLoad.before.loaded \/ lastLoad.age >= 5)
        /\ (lastLoad.before.loaded /\ lastLoad.age < 5) =>
              /\ ~lastLoad.threw
              /\ lastLoad.snapshot = lastLoad.before.rows
        /\ (~lastLoad.threw /\ ~lastLoad.reread) => lastLoad.age < 5

C22_Witness ==
    /\ loads = 2
    /\ ticks = 1
    /\ lastLoad.before.loaded
    /\ Len(lastLoad.before.rows) >= 1
    /\ lastLoad.age >= 5
    /\ lastLoad.reread
    /\ lastLoad.outcome = "ok"

\* C28: a vote isRelevant=false never increases the stored relevance score
\* of the entry and a vote isRelevant=true never decreases it; after any
\* number of negative votes in a row on a fresh entry the score is 0.
C28_VotesMoveScoreTheirWay ==
    /\ lastFeedback.id # NoId =>
          IF lastFeedback.isRelevant
          THEN lastFeedback.after.relevance_score
                   >= StoredOrDefault(lastFeedback.before.relevance_score)
          ELSE lastFeedback.after.relevance_score
                   <= StoredOrDefault(lastFeedback.before.relevance_score)
    /\ \A id \in EntryIds :
          (trail[id].fresh /\ Len(trail[id].votes) >= 1
              /\ \A i \in 1..Len(trail[id].votes) : ~trail[id].votes[i]) =>
                rows[id].relevance_score = 0

\* ------------------------------------------------------------------------
\* Claims about the ranker and the guardrails on any cache (RankSpec)
\* ------------------------------------------------------------------------
RawPosition(id) ==
    CHOOSE k \in 1..Len(rankOutput.raw) : rankOutput.raw[k].id = id

\* C23: the results are in the order of non-increasing confidence score,
\* and two results of equal confidence are in the order the ranker gave
\* them.
C23_SortedByConfidenceStable ==
    (rankOutput.done /\ rankOutput.guarded.success) =>
        \A i, j \in 1..Len(rankOutput.guarded.results) :
            i < j =>
                LET a == rankOutput.guarded.results[i]
                    b == rankOutput.guarded.results[j]
                IN  /\ a.confidence.score >= b.confidence.score
                    /\ a.confidence.score = b.confidence.score =>
                          RawPosition(a.id) < RawPosition(b.id)

C23_Witness ==
    /\ rankOutput.done
    /\ rankOutput.guarded.success
    /\ Len(rankOutput.guarded.results) = 3
    /\ rankOutput.guarded.results[1].confidence.score
           > rankOutput.guarded.results[2].confidence.score
    /\ rankOutput.guarded.results[2].confidence.score
           = rankOutput.guarded.results[3].confidence.score
    /\ RawPosition(rankOutput.guarded.results[1].id) > 1

\* the quality score the length of the answer gives, steps inclusive
QualityOfLength(len) ==
    IF len >= 500 THEN SCALE
    ELSE IF len >= 200 THEN Pct(80)
    ELSE IF len >= 100 THEN Pct(60)
    ELSE IF len >= 50 THEN Pct(40)
    ELSE Pct(20)

\* C24: the quality sub-score is 1.0 for an answer of 500 characters or
\* more, 0.8 from 200, 0.6 from 100, 0.4 from 50 and 0.2 below, plus 0.1
\* when the result has audio, capped at 1.0.
C24_QualitySteps ==
    rankOutput.done =>
        \A k \in 1..Len(rankOutput.raw) :
            rankOutput.confidences[k].details.quality =
                LET q == QualityOfLength(rankOutput.raw[k].answer.len)
                           + (IF rankOutput.raw[k].audio_path # NoAudio
                              THEN Pct(10) ELSE 0)
                IN  IF q > SCALE THEN SCALE ELSE q

InUnit(x) == x >= 0 /\ x <= SCALE

\* C25: for every candidate the ranker hands to calculateConfidence, the
\* four sub-scores (vector, thematic, quality, recency) and the weighted
\* confidence score are in [0, 1].
C25_SubScoresInUnitInterval ==
    rankOutput.done =>
        \A k \in 1..Len(rankOutput.raw) :
            /\ InUnit(rankOutput.confidences[k].details.vector)
            /\ InUnit(rankOutput.confidences[k].details.thematic)
            /\ InUnit(rankOutput.confidences[k].details.quality)
            /\ InUnit(rankOutput.confidences[k].details.recency)
            /\ InUnit(rankOutput.confidences[k].score)

\* ------------------------------------------------------------------------
\* Claims about transcribe (TranscribeLive)
\* ------------------------------------------------------------------------
RateLimitErrors ==
    { [status |-> 429, message |-> <<"Too", "Many", "Requests">>],
      [status |-> NoStatus, message |-> <<"Rate", "limit", "reached">>],
      [status |-> 400, message |-> <<"You", "exceeded", "your", "Quota">>] }

AttemptsWith(model) ==
    {i \in 1..Len(transcription.log) : transcription.log[i].model = model}

TranscribeBounded ==
    /\ \A i \in 1..Len(transcription.log) : transcription.log[i].model \in 1..2
    /\ \A model \in 1..2 : Cardinality(AttemptsWith(model)) <= 3
    /\ \A i \in 2..Len(transcription.log) :
          transcription.log[i].model = transcription.log[i - 1].model =>
              /\ transcription.log[i - 1].error \in RateLimitErrors
              /\ transcription.log[i - 1].slept > 0
              /\ transcription.log[i].slept \in
                     {0, 2 * transcription.log[i - 1].slept}
    /\ \A i \in 1..Len(transcription.log) :
          /\ transcription.log[i].attempt = 1 =>
                transcription.log[i].slept \in {0, 1200}
          /\ transcription.log[i].error \in RateLimitErrors =>
                transcription.log[i].slept > 0
    /\ transcription.returned =>
          transcription.result \in {"", "shalom", "bonjour", "salut"}

\* C26: transcribe makes at most 3 attempts with each of at most 2 models,
\* waits 1200 ms after the first rate-limit error of a model and twice the
\* previous delay after each further one, makes a further attempt with a
\* model only after a rate-limit or quota error, and always returns a
\* string, possibly empty, whatever the provider answers.
C26_TranscribeBoundedAndTerminates ==
    /\ []TranscribeBounded
    /\ <>(transcription.pc = "done" /\ transcription.returned)

C26_Witness ==
    /\ transcription.pc = "done"
    /\ transcription.result = ""
    /\ Len(transcription.log) = 6
    /\ transcription.log[3].slept = 4800
    /\ transcription.log[6].slept = 4800
    /\ transcription.log[4].error.status = NoStatus

\* ------------------------------------------------------------------------
\* Claims about the ingestion of a voice message (IngestSpec)
\* ------------------------------------------------------------------------
InLinker == {h \in Handlers : handlers[h].pc = "linking"}

\* C27: at most one computation of the link of the answer is in flight at
\* any time, also when the live handler and the catch-up scan both process
\* the message.
C27_OneLinkInFlight == Cardinality(InLinker) <= 1

\* C30: an answer whose link_method is 'reply' has link_confidence 1.0 and
\* link_question_id equal to the message it replied to, in every state the
\* processing of the message leaves in the store.
C30_ReplyLinkKept ==
    messages[AnswerId].link_method = "reply" =>
        /\ messages[AnswerId].link_confidence = SCALE
        /\ messages[AnswerId].link_question_id =
               messages[AnswerId].replied_to_message_id


====
